---- MODULE Spec2Model ----
(***************************************************************************)
(* A model of the sutd-coin node: the chain store (blockchain.py), blocks  *)
(* and proof-of-work mining (block.py), and the miner with its listener    *)
(* (miner.py, net_node.py), and the SPV client (spv_client.py).             *)
(*                                                                         *)
(* SHA-256 is a table from headers to numbers (sha): a header hashed for   *)
(* the first time gets a number no other header has.  Hex strings of equal *)
(* length compare as the numbers they write, so hashes are numbers.        *)
(***************************************************************************)
EXTENDS Integers, Sequences, FiniteSets, TLC

(***************************************************************************)
(* Bounds of the model.                                                    *)
(***************************************************************************)
\* how many blocks of WorldSeq exist for the stores of Spec to be handed
WorldSize == 8
\* how many blocks of WorldSeq peers send to the miner of SpecMiner
ForeignSize == 3
\* listener threads of a miner that can run at once
NumHandlers == 2
\* calls of create_block that get as far as building a header, all miners
MaxAttempts == 2
\* blocks mined in SpecNet, all miners together
MaxNetBlocks == 2
\* how many of the unused hashes below TARGET a mined header may get
HashChoice == 2
\* how many blocks of SpvWorldSeq exist in SpecSpv
SpvWorldSize == 6
\* peers of the SPV client that answer a request
NumPeers == 2
\* the longest list of replies handed to _process_replies in SpecQuorum
MaxReplies == 4
\* how many blocks of LedgerWorld a store of SpecLedger has been handed
MaxAdds == 3
\* addresses at which nodes are started in SpecOverlay
NumHosts == 3
\* blocks the selfish miner of SpecSelfish mines
MaxWithheld == 3
\* processes started again in SpecOverlay, all addresses together
MaxRestarts == 1
\* the longest list a MerkleTree of SpecMerkle is made of
MaxLeaves == 3
\* samples one _gather_transactions of SpecLocks draws
MaxSamples == 2

(***************************************************************************)
(* Program constants.                                                      *)
(***************************************************************************)
\* Block.TARGET: a header hash meets the target when it is below it
TARGET == 10
\* Block.REWARD
REWARD == 100
\* timestamp of the genesis header
GenesisTime == 1337
\* prev_hash of the genesis header, HASH_LEN * '0', read as a number
ZeroHash == 0
\* hash1_dic of the genesis header: a fixed number, not mined
GenesisHash == 12

\* the nodes: each has a chain store; their public keys are their numbers
Nodes == {1, 2, 3}
\* the nodes whose stores Spec drives
Stores == {1, 2}
\* the miner of SpecMiner
Me == CHOOSE n \in Nodes : \A m \in Nodes : n <= m
Handlers == 1..NumHandlers

(***************************************************************************)
(* Python dict, in insertion order: a sequence of <<key, value>> pairs     *)
(* with pairwise distinct keys.                                            *)
(***************************************************************************)
DictKeys(d) == {d[i][1] : i \in DOMAIN d}

DictGet(d, k) == LET i == CHOOSE j \in DOMAIN d : d[j][1] = k IN d[i][2]

DictPop(d, k) == SelectSeq(d, LAMBDA e : e[1] # k)

\* d[k] = v: an existing key keeps its place, a new key goes last
DictSet(d, k, v) ==
    IF k \in DictKeys(d)
    THEN [i \in DOMAIN d |-> IF d[i][1] = k THEN <<k, v>> ELSE d[i]]
    ELSE Append(d, <<k, v>>)

\* the dict as a map, its order forgotten
DictMap(d) == [k \in DictKeys(d) |-> DictGet(d, k)]

SeqToSet(s) == {s[i] : i \in DOMAIN s}

(***************************************************************************)
(* Transactions.  The ECDSA signature is the key that signed: it verifies  *)
(* under the sender when the sender signed.                                *)
(***************************************************************************)
NewTransaction(sender, receiver, amount, privkey, nonce) ==
    [sender |-> sender, receiver |-> receiver, amount |-> amount,
     nonce |-> nonce, signature |-> privkey]

\* Transaction.validate: the checks on the values (the model's records are
\* well typed); "raise" for the exception
TransactionValidate(tx) == IF tx.amount <= 0 THEN "raise" ELSE "ok"

\* Transaction.verify
TransactionVerify(tx) == tx.signature = tx.sender

\* the coinbase transaction of _gather_transactions
CoinbaseTx(pubkey, nonce) == NewTransaction(pubkey, pubkey, REWARD, pubkey, nonce)

(***************************************************************************)
(* Blocks.                                                                 *)
(***************************************************************************)
\* root of a block without transactions: MerkleTree([]).get_root() is None
NoRoot == <<"None">>

\* MerkleTree(items).get_root(): a digest of the leaves.  The leaves are
\* kept in a dict keyed by item, so a repeated item is one leaf.
RECURSIVE Dedup(_)
Dedup(items) ==
    IF items = <<>> THEN <<>>
    ELSE LET rest == Dedup(SubSeq(items, 1, Len(items) - 1))
             last == items[Len(items)]
         IN IF last \in SeqToSet(rest) THEN rest ELSE Append(rest, last)

MerkleRoot(items) == IF items = <<>> THEN NoRoot ELSE <<"root", Dedup(items)>>

\* Block.get_genesis
Genesis ==
    [header |-> [prev_hash |-> ZeroHash, root |-> <<"f">>,
                 timestamp |-> GenesisTime, nonce |-> 0],
     transactions |-> <<>>]

VARIABLES
    sha,                \* algo.hash1_dic, tabulated: header -> hash
    clock,              \* datetime.utcnow().timestamp(), in whole steps
    hash_block_map,     \* Blockchain._hash_block_map of each node
    endhash_clen_map,   \* Blockchain._endhash_clen_map of each node (a dict)
    all_transactions,   \* Miner._all_transactions of each node
    added_transactions, \* Miner._added_transactions of each node
    balance,            \* Miner._balance of each node
    stop_mine,          \* Miner._stop_mine of each node: the Event is set
    miner,              \* the thread of each node that runs create_block
    handler,            \* the listener threads of each node
    chan,               \* block messages sent and not yet received
    hash_blkheader_map, \* SPVClient._hash_blkheader_map
    hash_transactions_map, \* SPVClient._hash_transactions_map
    spv_call,           \* the last call of the SPV client and how it ended
    mode,               \* DoubleSpendMiner.mode
    excluded_transactions, \* DoubleSpendMiner.excluded_transactions
    withheld_blocks,    \* withheld_blocks of DoubleSpendMiner and of SelfishMiner
    pubchain_count,     \* DoubleSpendMiner.pubchain_count
    addresses,          \* TrustedServer._addresses
    peers,              \* NetNode._peers of the process at each address
    node,               \* the process at each address: its key and where its startup is
    inbox,              \* "n" messages of the server sent and not yet received
    merkle_items,       \* the list a MerkleTree is made of
    merkle_call,        \* the last call on the MerkleTree and how it ended
    headers_sent,       \* the "h" messages each node has broadcast, oldest first
    lock,               \* the RLocks of the Miner: the thread that owns each, and how often
    thread              \* the lock operations each thread of the Miner has still to do

storeVars == <<hash_block_map, endhash_clen_map>>
minerVars == <<all_transactions, added_transactions, balance, stop_mine, miner, handler>>
spvVars == <<hash_blkheader_map, hash_transactions_map, spv_call>>
dsVars == <<mode, excluded_transactions, withheld_blocks, pubchain_count>>
overlayVars == <<addresses, peers, node, inbox>>
merkleVars == <<merkle_items, merkle_call>>
threadVars == <<headers_sent, lock, thread>>
advVars == <<dsVars, overlayVars, merkleVars, threadVars>>
vars == <<sha, clock, hash_block_map, endhash_clen_map, all_transactions,
          added_transactions, balance, stop_mine, miner, handler, chan,
          hash_blkheader_map, hash_transactions_map, spv_call,
          advVars>>

\* algo.hash1_dic(header)
hash1_dic(header) == sha[header]

\* Block.validate without its checks of the root
BlockValidateAnyRoot(block) ==
    IF block.header.timestamp <= 0 THEN "Invalid timestamp value." ELSE "ok"

\* Block.validate: the root of the header is a string (a root that is None
\* is not), the timestamp is positive; the other fields have their types
BlockValidate(block) ==
    IF block.header.root = NoRoot THEN "Merkle tree root hash not string."
    ELSE IF block.header.timestamp <= 0 THEN "Invalid timestamp value."
    ELSE "ok"

\* Block._check_header_hash
check_header_hash(block) == hash1_dic(block.header) < TARGET

\* Block._check_root
check_root(block) == MerkleRoot(block.transactions) = block.header.root

\* Block._verify_transactions: "raise" when Transaction.from_json raises
verify_transactions(block) ==
    LET txs == block.transactions
        Bad(i) == \/ (i = 1 /\ txs[i].amount # REWARD)
                  \/ (i = 1 /\ txs[i].sender # txs[i].receiver)
                  \/ ~TransactionVerify(txs[i])
    IN IF \E i \in DOMAIN txs :
             /\ TransactionValidate(txs[i]) = "raise"
             /\ \A j \in 1..(i - 1) : ~Bad(j)
       THEN "raise"
       ELSE IF \E i \in DOMAIN txs : Bad(i) THEN "false" ELSE "true"

\* Block._check_duplicate_trans
check_duplicate_trans(block) ==
    Cardinality(SeqToSet(block.transactions)) = Len(block.transactions)

\* Block.verify: "ok", or the message of the exception it raises
BlockVerify(block) ==
    IF block = Genesis THEN "ok"
    ELSE IF ~check_header_hash(block) THEN "Invalid block header hash."
    ELSE IF ~check_root(block) THEN "Invalid root in block."
    ELSE IF verify_transactions(block) = "raise" THEN "Invalid transaction amount."
    ELSE IF verify_transactions(block) = "false" THEN "Some transactions are invalid."
    ELSE IF ~check_duplicate_trans(block) THEN "Duplicate transactions found."
    ELSE "ok"

(***************************************************************************)
(* The chain store: Blockchain, over its two maps.                         *)
(***************************************************************************)
\* Blockchain._get_chain_length
RECURSIVE chain_length_from(_, _)
chain_length_from(hbm, prev_hash) ==
    IF prev_hash = Genesis.header.prev_hash THEN 0
    ELSE 1 + chain_length_from(hbm, hbm[prev_hash].header.prev_hash)

get_chain_length(hbm, block) == chain_length_from(hbm, block.header.prev_hash)

\* Blockchain._get_chain_pow
RECURSIVE chain_pow_from(_, _)
chain_pow_from(hbm, prev_hash) ==
    IF prev_hash = Genesis.header.prev_hash THEN 0
    ELSE hash1_dic(hbm[prev_hash].header)
         + chain_pow_from(hbm, hbm[prev_hash].header.prev_hash)

get_chain_pow(hbm, block) ==
    hash1_dic(block.header) + chain_pow_from(hbm, block.header.prev_hash)

\* Blockchain.get_blocks_by_fork: the fork's blocks, the last block first,
\* genesis left out
RECURSIVE get_blocks_by_fork(_, _)
get_blocks_by_fork(hbm, last_block) ==
    IF last_block = Genesis THEN <<>>
    ELSE <<last_block>> \o get_blocks_by_fork(hbm, hbm[last_block.header.prev_hash])

\* Blockchain.get_transactions_by_fork
RECURSIVE FlattenTx(_)
FlattenTx(blocks) ==
    IF blocks = <<>> THEN <<>>
    ELSE blocks[1].transactions \o FlattenTx(Tail(blocks))

get_transactions_by_fork(hbm, last_block) ==
    FlattenTx(get_blocks_by_fork(hbm, last_block))

\* one transaction of get_balance_by_fork applied to the account map; i is
\* its place in its block, from 1
ApplyTx(bal, tx, i) ==
    LET b1 == IF tx.sender \in DOMAIN bal THEN bal ELSE bal @@ (tx.sender :> 0)
        b2 == IF tx.receiver \in DOMAIN b1 THEN b1 ELSE b1 @@ (tx.receiver :> 0)
    IN IF i = 1 /\ tx.sender = tx.receiver
       THEN [b2 EXCEPT ![tx.receiver] = @ + tx.amount]
       ELSE LET b3 == [b2 EXCEPT ![tx.sender] = @ - tx.amount]
            IN [b3 EXCEPT ![tx.receiver] = @ + tx.amount]

RECURSIVE ApplyBlockTxs(_, _, _)
ApplyBlockTxs(bal, txs, i) ==
    IF i > Len(txs) THEN bal
    ELSE ApplyBlockTxs(ApplyTx(bal, txs[i], i), txs, i + 1)

RECURSIVE ApplyBlocks(_, _)
ApplyBlocks(bal, blocks) ==
    IF blocks = <<>> THEN bal
    ELSE ApplyBlocks(ApplyBlockTxs(bal, blocks[1].transactions, 1), Tail(blocks))

\* the account map of a fork, as the loops of get_balance_by_fork build it
fork_balance(hbm, last_block) == ApplyBlocks(<<>>, get_blocks_by_fork(hbm, last_block))

\* Blockchain.get_balance_by_fork: the account map it returns, with raise
\* true for its exception "Negative amount when computing balance."
get_balance_by_fork(hbm, last_block) ==
    LET bal == fork_balance(hbm, last_block)
    IN [raise |-> \E k \in DOMAIN bal : bal[k] < 0, balance |-> bal]

\* Blockchain._check_prev_exist
check_prev_exist(hbm, prev_hash) == prev_hash \in DOMAIN hbm

\* Blockchain._check_timestamp
check_timestamp(hbm, block) ==
    block.header.timestamp > hbm[block.header.prev_hash].header.timestamp

\* check_trans_in_chain with the comparison left out
check_trans_in_chain_skipped(hbm, block) == TRUE

\* Blockchain._check_trans_in_chain
check_trans_in_chain(hbm, block) ==
    LET trans_set == SeqToSet(get_transactions_by_fork(hbm, hbm[block.header.prev_hash]))
        blk_trans_set == SeqToSet(block.transactions)
    IN Cardinality(blk_trans_set \ trans_set) = Cardinality(blk_trans_set)

\* Blockchain.verify: "ok", or the message of the exception it raises
BlockchainVerify(hbm, block) ==
    LET prev_hash == block.header.prev_hash IN
    IF ~check_prev_exist(hbm, prev_hash) THEN "Previous block does not exist."
    ELSE IF BlockValidate(hbm[prev_hash]) # "ok" THEN BlockValidate(hbm[prev_hash])
    ELSE IF BlockVerify(hbm[prev_hash]) # "ok" THEN BlockVerify(hbm[prev_hash])
    ELSE IF ~check_timestamp(hbm, block) THEN "Invalid timestamp in block."
    ELSE IF BlockValidate(block) # "ok" THEN BlockValidate(block)
    ELSE IF BlockVerify(block) # "ok" THEN BlockVerify(block)
    ELSE IF ~check_trans_in_chain(hbm, block)
         THEN "Transaction is already in the blockchain."
    ELSE "ok"

\* AddedBlocks with the parent of the new block dropped from the map
AddedBlocksOrphaning(hbm, block) ==
    LET curr_hash == hash1_dic(block.header)
    IN [h \in (DOMAIN hbm \ {block.header.prev_hash}) \cup {curr_hash} |->
           IF h = curr_hash THEN block ELSE hbm[h]]

\* Blockchain.add, after verify has passed: the two maps it leaves
AddedBlocks(hbm, block) ==
    LET curr_hash == hash1_dic(block.header)
    IN [h \in DOMAIN hbm \cup {curr_hash} |-> IF h = curr_hash THEN block ELSE hbm[h]]

\* AddedTips with the length of the replaced tip kept as it was
AddedTipsStale(hbm, ecm, block) ==
    LET curr_hash == hash1_dic(block.header)
        prev_hash == block.header.prev_hash
    IN IF prev_hash \in DictKeys(ecm)
       THEN DictSet(DictPop(ecm, prev_hash), curr_hash, DictGet(ecm, prev_hash))
       ELSE DictSet(ecm, curr_hash, get_chain_length(AddedBlocks(hbm, block), block))

\* AddedTips with the new block as the only tip
AddedTipsOnly(hbm, ecm, block) ==
    <<<<hash1_dic(block.header), get_chain_length(AddedBlocks(hbm, block), block)>>>>

\* Blockchain.add, after verify has passed: the tips it leaves
AddedTips(hbm, ecm, block) ==
    LET curr_hash == hash1_dic(block.header)
        prev_hash == block.header.prev_hash
    IN IF prev_hash \in DictKeys(ecm)
       THEN DictSet(DictPop(ecm, prev_hash), curr_hash, DictGet(ecm, prev_hash) + 1)
       ELSE DictSet(ecm, curr_hash, get_chain_length(AddedBlocks(hbm, block), block))

\* Blockchain._pow
Pow(hbm, block_hash) == get_chain_pow(hbm, hbm[block_hash])

\* MaxByPow without the comparison: the first of the longest tips
FirstOfLongest(hbm, block_hashes) == block_hashes[1]

\* max(block_hashes, key=self._pow): the first of the largest
RECURSIVE MaxByPow(_, _)
MaxByPow(hbm, block_hashes) ==
    IF Len(block_hashes) = 1 THEN block_hashes[1]
    ELSE LET rest == MaxByPow(hbm, SubSeq(block_hashes, 1, Len(block_hashes) - 1))
             last == block_hashes[Len(block_hashes)]
         IN IF Pow(hbm, last) > Pow(hbm, rest) THEN last ELSE rest

\* Blockchain.resolve
resolve(hbm, ecm) ==
    IF Len(ecm) = 1 THEN hbm[ecm[1][1]]
    ELSE LET longest_clen == CHOOSE v \in {ecm[i][2] : i \in DOMAIN ecm} :
                                 \A i \in DOMAIN ecm : ecm[i][2] <= v
             longest == SelectSeq(ecm, LAMBDA e : e[2] = longest_clen)
             block_hashes == [i \in DOMAIN longest |-> longest[i][1]]
         IN IF Len(block_hashes) # 1
            THEN hbm[MaxByPow(hbm, block_hashes)]
            ELSE hbm[block_hashes[1]]

\* the hashes of the blocks from last_block back to genesis, both included
ForkHashes(hbm, last_block) ==
    {GenesisHash} \cup
        {hash1_dic(get_blocks_by_fork(hbm, last_block)[i].header) :
            i \in DOMAIN get_blocks_by_fork(hbm, last_block)}

\* Resolved with the blocks outside the fork of the returned block removed,
\* as _remove_fork_blocks would
ResolvedPruned(hbm, ecm) ==
    LET blk == resolve(hbm, ecm)
    IN [blocks |-> [h \in ForkHashes(hbm, blk) |-> hbm[h]],
        tips |-> <<<<hash1_dic(blk.header), get_chain_length(hbm, blk)>>>>]

\* Blockchain.resolve: the two maps it leaves.  It assigns to neither; its
\* call of _remove_fork_blocks is commented out.
Resolved(hbm, ecm) == [blocks |-> hbm, tips |-> ecm]


(***************************************************************************)
(* The blocks that exist for a chain store to be handed.  Keys 1, 2, 3 are *)
(* miners; key 4 never receives a coin.                                    *)
(***************************************************************************)
MakeBlock(prev_hash, timestamp, nonce, transactions) ==
    [header |-> [prev_hash |-> prev_hash, root |-> MerkleRoot(transactions),
                 timestamp |-> timestamp, nonce |-> nonce],
     transactions |-> transactions]

\* key 1 pays key 2
PayTx == NewTransaction(1, 2, 50, 1, 101)
\* key 4, which owns nothing, pays key 1
OverTx == NewTransaction(4, 1, 50, 4, 102)
\* key 2 pays key 3, signed by key 3
ForgedTx == NewTransaction(2, 3, 50, 3, 103)

WorldSeq ==
    << [hash |-> 1, block |-> MakeBlock(GenesisHash, 1338, 1, <<CoinbaseTx(1, 1)>>)],
       \* a fork from inside, with a sender without funds
       [hash |-> 5, block |-> MakeBlock(1, 1339, 1, <<CoinbaseTx(3, 5), OverTx>>)],
       \* a timestamp not after the parent's
       [hash |-> 8, block |-> MakeBlock(1, 1338, 1, <<CoinbaseTx(2, 8)>>)],
       \* two forks of length two from genesis, with the first block
       [hash |-> 4, block |-> MakeBlock(1, 1339, 1, <<CoinbaseTx(1, 2), PayTx>>)],
       [hash |-> 2, block |-> MakeBlock(GenesisHash, 1338, 1, <<CoinbaseTx(2, 3)>>)],
       [hash |-> 3, block |-> MakeBlock(2, 1339, 1, <<CoinbaseTx(2, 4)>>)],
       \* a transaction of the parent block again
       [hash |-> 7, block |-> MakeBlock(4, 1340, 1, <<CoinbaseTx(2, 7), PayTx>>)],
       \* a header hash over the target
       [hash |-> 11, block |-> MakeBlock(GenesisHash, 1338, 2, <<CoinbaseTx(3, 9)>>)],
       \* a third block on the first fork
       [hash |-> 9, block |-> MakeBlock(4, 1340, 1, <<CoinbaseTx(1, 10)>>)],
       \* a signature of another key
       [hash |-> 13, block |-> MakeBlock(2, 1339, 2, <<CoinbaseTx(3, 11), ForgedTx>>)] >>

World == SubSeq(WorldSeq, 1, IF WorldSize < Len(WorldSeq) THEN WorldSize ELSE Len(WorldSeq))

WorldSha ==
    [header \in {Genesis.header} \cup {World[i].block.header : i \in DOMAIN World} |->
        IF header = Genesis.header THEN GenesisHash
        ELSE LET i == CHOOSE j \in DOMAIN World : World[j].block.header = header
             IN World[i].hash]

\* Blockchain.new
NewBlockchainBlocks == [h \in {GenesisHash} |-> Genesis]
NewBlockchainTips == <<<<GenesisHash, 0>>>>

(***************************************************************************)
(* Spec: chain stores handed the blocks of World, in any order, any number *)
(* of times.                                                               *)
(***************************************************************************)
\* SPVClient.__init__: the header map holds genesis; the transaction map, a
\* dict, is empty
NewHeaders == [h \in {GenesisHash} |-> Genesis.header]

\* json null in a hash field of a reply: no header hash
NoneHash == 0 - 1
\* json null or Python None elsewhere
None == <<"None">>

\* no call of the SPV client has ended yet
NoCall == [op |-> "none", tx_hash |-> None, replies |-> <<>>,
           valid_reply |-> None, result |-> "none"]

\* the modes of DoubleSpendMiner
INIT_MODE == 0
FORK_MODE == 1
FIRE_MODE == 2

\* the first time of the clock: after every timestamp of WorldSeq
ClockStart == GenesisTime + 4

IdleMiner == [pc |-> "idle", last_blk |-> Genesis, gathered_tx |-> <<>>, header |-> Genesis.header]
IdleHandler == [pc |-> "idle", block |-> Genesis]

\* Miner.__init__: the four RLocks
Locks == {"blockchain_lock", "all_tx_lock", "added_tx_lock", "balance_lock"}
\* an RLock that no thread owns
Unlocked == [owner |-> 0 - 1, count |-> 0]
\* the threads of a Miner: thread 0 runs main, the others are the threads
\* the listener starts, one for each message
Threads == {0} \cup Handlers

\* Miner.__init__, of every node
InitNodes ==
    /\ clock = ClockStart
    /\ hash_block_map = [n \in Nodes |-> NewBlockchainBlocks]
    /\ endhash_clen_map = [n \in Nodes |-> NewBlockchainTips]
    /\ all_transactions = [n \in Nodes |-> {}]
    /\ added_transactions = [n \in Nodes |-> {}]
    /\ balance = [n \in Nodes |-> <<>>]
    /\ stop_mine = [n \in Nodes |-> FALSE]
    /\ miner = [n \in Nodes |-> IdleMiner]
    /\ handler = [n \in Nodes |-> [k \in Handlers |-> IdleHandler]]
    /\ chan = [n \in Nodes |-> [m \in Nodes |-> <<>>]]
    /\ hash_blkheader_map = NewHeaders
    /\ hash_transactions_map = <<>>
    /\ spv_call = NoCall
    /\ mode = INIT_MODE
    /\ excluded_transactions = {}
    /\ withheld_blocks = <<>>
    /\ pubchain_count = 0
    /\ addresses = <<>>
    /\ peers = [a \in 1..NumHosts |-> <<>>]
    /\ node = [a \in 1..NumHosts |-> [pc |-> "new", pubkey |-> a]]
    /\ inbox = [a \in 1..NumHosts |-> <<>>]
    /\ headers_sent = [n \in Nodes |-> <<>>]
    /\ lock = [l \in Locks |-> Unlocked]
    /\ thread = [t \in Threads |-> <<>>]
    /\ merkle_items = <<>>
    /\ merkle_call = NoCall

Init == sha = WorldSha /\ InitNodes

\* Blockchain.add(block) on the store of node n; an exception of verify
\* leaves the store as it was
Add(n, block) ==
    /\ IF BlockchainVerify(hash_block_map[n], block) = "ok"
       THEN /\ hash_block_map' =
                  [hash_block_map EXCEPT ![n] = AddedBlocks(hash_block_map[n], block)]
            /\ endhash_clen_map' =
                  [endhash_clen_map EXCEPT
                     ![n] = AddedTips(hash_block_map[n], endhash_clen_map[n], block)]
       ELSE UNCHANGED <<hash_block_map, endhash_clen_map>>
    /\ UNCHANGED <<advVars, spvVars, sha, clock, minerVars, chan>>

\* Blockchain.resolve() on the store of node n
Resolve(n) ==
    /\ hash_block_map' =
          [hash_block_map EXCEPT
             ![n] = Resolved(hash_block_map[n], endhash_clen_map[n]).blocks]
    /\ endhash_clen_map' =
          [endhash_clen_map EXCEPT
             ![n] = Resolved(hash_block_map[n], endhash_clen_map[n]).tips]
    /\ UNCHANGED <<advVars, spvVars, sha, clock, minerVars, chan>>

Next ==
    \/ \E n \in Stores, i \in DOMAIN World : Add(n, World[i].block)
    \/ \E n \in Stores : Resolve(n)

Spec == Init /\ [][Next]_vars

(***************************************************************************)
(* The miner: Miner and _MinerListener.                                    *)
(***************************************************************************)
\* Miner._update: the set it assigns to _added_transactions
update_added(hbm, ecm) ==
    SeqToSet(get_transactions_by_fork(hbm, resolve(hbm, ecm)))

\* Miner._update: the result of its get_balance_by_fork
update_balance(hbm, ecm) == get_balance_by_fork(hbm, resolve(hbm, ecm))

\* check_transactions_balance with the test of the balances left out
check_transactions_balance_unchecked(bal, transactions) ==
    \A i \in DOMAIN transactions : transactions[i].sender \in DOMAIN bal

\* Miner._check_transactions_balance, on a copy bal of _balance
RECURSIVE check_transactions_balance(_, _)
check_transactions_balance(bal, transactions) ==
    IF transactions = <<>> THEN TRUE
    ELSE LET tx == Head(transactions) IN
         IF tx.sender \notin DOMAIN bal THEN FALSE
         ELSE LET b1 == IF tx.receiver \in DOMAIN bal THEN bal
                        ELSE bal @@ (tx.receiver :> 0)
                  b2 == [b1 EXCEPT ![tx.sender] = @ - tx.amount]
                  b3 == [b2 EXCEPT ![tx.receiver] = @ + tx.amount]
              IN IF b3[tx.sender] < 0 \/ b3[tx.receiver] < 0 THEN FALSE
                 ELSE check_transactions_balance(b3, Tail(transactions))

\* random.sample(transaction_pool, num_tx): every list it can return
Samples(pool, num_tx) ==
    {t \in [1..num_tx -> pool] : \A i, j \in 1..num_tx : i # j => t[i] # t[j]}

\* Miner._gather_transactions: every list it can return.  It returns a
\* sample of num_tx transactions that passes the balance check when the
\* samples it drew of every larger size failed it, and the coinbase alone
\* when the samples of every size failed.
gather_transactions(pool, bal, pubkey, nonce) ==
    LET coinbase == <<CoinbaseTx(pubkey, nonce)>>
        size == Cardinality(pool)
        CanFail(k) == \E t \in Samples(pool, k) : ~check_transactions_balance(bal, t)
        Kept == UNION {{t \in Samples(pool, k) :
                           /\ check_transactions_balance(bal, t)
                           /\ \A j \in (k + 1)..size : CanFail(j)} : k \in 1..size}
    IN {coinbase \o t : t \in Kept}
         \cup (IF \A j \in 1..size : CanFail(j) THEN {coinbase} ELSE {})

\* the hashes oracle sha may give a header that meets the target
UsedHashes == {sha[header] : header \in DOMAIN sha}
UnusedHashes == {h \in 1..(TARGET - 1) : h \notin UsedHashes}
FreshHashes ==
    {h \in UnusedHashes : Cardinality({g \in UnusedHashes : g < h}) < HashChoice}

Peers(n) == Nodes \ {n}

\* NetNode.broadcast_message of a block message by node n
Broadcast(n, block) ==
    [src \in Nodes |-> [dst \in Nodes |->
        IF src = n /\ dst \in Peers(n) THEN Append(chan[src][dst], block)
        ELSE chan[src][dst]]]

\* create_block, its first statement: _update
CreateBlockUpdate(n) ==
    /\ miner[n].pc = "idle"
    /\ clock < ClockStart + MaxAttempts
    /\ LET hbm == hash_block_map[n]
           ecm == endhash_clen_map[n]
       IN /\ added_transactions' = [added_transactions EXCEPT ![n] = update_added(hbm, ecm)]
          /\ IF update_balance(hbm, ecm).raise
             THEN /\ miner' = [miner EXCEPT ![n] = [IdleMiner EXCEPT !.pc = "crashed"]]
                  /\ UNCHANGED balance
             ELSE /\ miner' = [miner EXCEPT ![n] =
                                 [IdleMiner EXCEPT !.pc = "gather",
                                                   !.last_blk = resolve(hbm, ecm)]]
                  /\ balance' = [balance EXCEPT ![n] = update_balance(hbm, ecm).balance]
    /\ UNCHANGED <<advVars, spvVars, sha, clock, storeVars, all_transactions, stop_mine, handler, chan>>

\* create_block: _gather_transactions, and Block.new up to its loop
CreateBlockGather(n) ==
    /\ miner[n].pc = "gather"
    /\ \E gathered_tx \in gather_transactions(
             all_transactions[n] \ added_transactions[n], balance[n], n, clock) :
          miner' = [miner EXCEPT ![n] =
                      [@ EXCEPT !.pc = "poll",
                                !.gathered_tx = gathered_tx,
                                !.header = [prev_hash |-> hash1_dic(miner[n].last_blk.header),
                                            root |-> MerkleRoot(gathered_tx),
                                            timestamp |-> clock,
                                            nonce |-> 1]]]
    /\ clock' = clock + 1
    /\ UNCHANGED <<advVars, spvVars, sha, storeVars, all_transactions, added_transactions, balance,
                   stop_mine, handler, chan>>

\* Block.new: the test of its while loop; create_block returns None when
\* the Event is set
MinePoll(n) ==
    /\ miner[n].pc = "poll"
    /\ miner' = [miner EXCEPT ![n] =
                   IF stop_mine[n] THEN IdleMiner ELSE [@ EXCEPT !.pc = "hash"]]
    /\ UNCHANGED <<advVars, spvVars, sha, clock, storeVars, all_transactions, added_transactions,
                   balance, stop_mine, handler, chan>>

\* Block.new: the body of its loop: the header's hash is over the target and
\* another nonce is drawn, or it is under it and the block is returned
MineHash(n) ==
    /\ miner[n].pc = "hash"
    /\ \/ /\ miner' = [miner EXCEPT ![n].pc = "poll"]
          /\ UNCHANGED sha
       \/ \E h \in FreshHashes :
             /\ sha' = sha @@ (miner[n].header :> h)
             /\ miner' = [miner EXCEPT ![n].pc = "add"]
    /\ UNCHANGED <<advVars, spvVars, clock, storeVars, all_transactions, added_transactions,
                   balance, stop_mine, handler, chan>>

MinedBlock(n) == [header |-> miner[n].header, transactions |-> miner[n].gathered_tx]

\* Miner.add_block up to the release of the chain lock: Block.from_json and
\* Blockchain.add.  "ok", or "raise" with the stores as they were.
AddBlock(n, block, result) ==
    LET hbm == hash_block_map[n]
        ecm == endhash_clen_map[n]
    IN IF BlockValidate(block) = "ok" /\ BlockchainVerify(hbm, block) = "ok"
       THEN /\ result = "ok"
            /\ hash_block_map' = [hash_block_map EXCEPT ![n] = AddedBlocks(hbm, block)]
            /\ endhash_clen_map' = [endhash_clen_map EXCEPT ![n] = AddedTips(hbm, ecm, block)]
       ELSE /\ result = "raise"
            /\ UNCHANGED storeVars

\* create_block with its add_block left out
CreateBlockAddSkipped(n) ==
    /\ miner[n].pc = "add"
    /\ miner' = [miner EXCEPT ![n].pc = "update"]
    /\ UNCHANGED <<advVars, spvVars, sha, clock, storeVars, all_transactions,
                   added_transactions, balance, stop_mine, handler, chan>>

\* create_block: add_block of the mined block, up to its _update; an
\* exception ends the thread
CreateBlockAdd(n) ==
    /\ miner[n].pc = "add"
    /\ \E result \in {"ok", "raise"} :
          /\ AddBlock(n, MinedBlock(n), result)
          /\ miner' = [miner EXCEPT ![n] =
                         IF result = "ok" THEN [@ EXCEPT !.pc = "update"]
                         ELSE [IdleMiner EXCEPT !.pc = "crashed"]]
    /\ UNCHANGED <<advVars, spvVars, sha, clock, all_transactions, added_transactions, balance,
                   stop_mine, handler, chan>>

\* create_block: the _update that ends add_block
CreateBlockAddUpdate(n) ==
    /\ miner[n].pc = "update"
    /\ LET hbm == hash_block_map[n]
           ecm == endhash_clen_map[n]
       IN /\ added_transactions' = [added_transactions EXCEPT ![n] = update_added(hbm, ecm)]
          /\ IF update_balance(hbm, ecm).raise
             THEN /\ miner' = [miner EXCEPT ![n] = [IdleMiner EXCEPT !.pc = "crashed"]]
                  /\ UNCHANGED balance
             ELSE /\ miner' = [miner EXCEPT ![n].pc = "broadcast"]
                  /\ balance' = [balance EXCEPT ![n] = update_balance(hbm, ecm).balance]
    /\ UNCHANGED <<advVars, spvVars, sha, clock, storeVars, all_transactions, stop_mine, handler, chan>>

\* create_block: the broadcast of the "b" message
CreateBlockBroadcast(n) ==
    /\ miner[n].pc = "broadcast"
    /\ chan' = Broadcast(n, MinedBlock(n))
    /\ miner' = [miner EXCEPT ![n].pc = "header"]
    /\ UNCHANGED <<advVars, spvVars, sha, clock, storeVars, all_transactions,
                   added_transactions, balance, stop_mine, handler>>

\* create_block: the broadcast of the "h" message, and the gathered
\* transactions joined to _added_transactions
CreateBlockBroadcastHeader(n) ==
    /\ miner[n].pc = "header"
    /\ headers_sent' = [headers_sent EXCEPT ![n] = Append(@, miner[n].header)]
    /\ added_transactions' = [added_transactions EXCEPT
                                ![n] = @ \cup SeqToSet(miner[n].gathered_tx)]
    /\ miner' = [miner EXCEPT ![n] = IdleMiner]
    /\ UNCHANGED <<dsVars, overlayVars, merkleVars, lock, thread, spvVars, sha, clock,
                   storeVars, all_transactions, balance, stop_mine, handler, chan>>

\* _handle_block by listener thread k: the message is read and the Event set
HandleBlockSet(n, k, block) ==
    /\ handler[n][k].pc = "idle"
    /\ handler' = [handler EXCEPT ![n][k] = [pc |-> "add", block |-> block]]
    /\ stop_mine' = [stop_mine EXCEPT ![n] = TRUE]
    /\ UNCHANGED <<advVars, spvVars, sha, clock, storeVars, all_transactions, added_transactions,
                   balance, miner>>

\* _handle_block: add_block up to its _update; an exception ends the thread
HandleBlockAdd(n, k) ==
    /\ handler[n][k].pc = "add"
    /\ \E result \in {"ok", "raise"} :
          /\ AddBlock(n, handler[n][k].block, result)
          /\ handler' = [handler EXCEPT ![n][k] =
                           IF result = "ok" THEN [@ EXCEPT !.pc = "update"]
                           ELSE IdleHandler]
    /\ UNCHANGED <<advVars, spvVars, sha, clock, all_transactions, added_transactions, balance,
                   stop_mine, miner, chan>>

\* _handle_block: the _update that ends add_block
HandleBlockUpdate(n, k) ==
    /\ handler[n][k].pc = "update"
    /\ LET hbm == hash_block_map[n]
           ecm == endhash_clen_map[n]
       IN /\ added_transactions' = [added_transactions EXCEPT ![n] = update_added(hbm, ecm)]
          /\ IF update_balance(hbm, ecm).raise
             THEN /\ handler' = [handler EXCEPT ![n][k] = IdleHandler]
                  /\ UNCHANGED balance
             ELSE /\ handler' = [handler EXCEPT ![n][k].pc = "clear"]
                  /\ balance' = [balance EXCEPT ![n] = update_balance(hbm, ecm).balance]
    /\ UNCHANGED <<advVars, spvVars, sha, clock, storeVars, all_transactions, stop_mine, miner, chan>>

\* _handle_block: the Event cleared
HandleBlockClear(n, k) ==
    /\ handler[n][k].pc = "clear"
    /\ stop_mine' = [stop_mine EXCEPT ![n] = FALSE]
    /\ handler' = [handler EXCEPT ![n][k] = IdleHandler]
    /\ UNCHANGED <<advVars, spvVars, sha, clock, storeVars, all_transactions, added_transactions,
                   balance, miner, chan>>

\* _handle_transaction: Miner.add_transaction; its exceptions and a
\* transaction already in the pool leave the pool as it was
HandleTransaction(n, tx) ==
    /\ all_transactions' = [all_transactions EXCEPT ![n] =
          IF TransactionValidate(tx) = "ok" /\ TransactionVerify(tx) THEN @ \cup {tx} ELSE @]
    /\ UNCHANGED <<advVars, spvVars, sha, clock, storeVars, added_transactions, balance, stop_mine,
                   miner, handler, chan>>

(***************************************************************************)
(* SpecMiner: one miner, its mining thread and its listener threads, with  *)
(* peers that send it blocks of World and transactions.                    *)
(***************************************************************************)
Foreign == SubSeq(World, 1, IF ForeignSize < Len(World) THEN ForeignSize ELSE Len(World))

TxWorld == {PayTx, ForgedTx}

\* a peer's block message reaches listener thread k
ReceiveForeign(n, k) ==
    \E i \in DOMAIN Foreign : HandleBlockSet(n, k, Foreign[i].block) /\ UNCHANGED chan

MinerNext ==
    \/ CreateBlockUpdate(Me)
    \/ CreateBlockGather(Me)
    \/ MinePoll(Me)
    \/ MineHash(Me)
    \/ CreateBlockAdd(Me)
    \/ CreateBlockAddUpdate(Me)
    \/ CreateBlockBroadcast(Me)
    \/ CreateBlockBroadcastHeader(Me)
    \/ \E k \in Handlers : ReceiveForeign(Me, k)
    \/ \E k \in Handlers : HandleBlockAdd(Me, k)
    \/ \E k \in Handlers : HandleBlockUpdate(Me, k)
    \/ \E k \in Handlers : HandleBlockClear(Me, k)
    \/ \E tx \in TxWorld : HandleTransaction(Me, tx)

SpecMiner == Init /\ [][MinerNext]_vars

\* the threads of the miner are scheduled: a thread that can take a step
\* takes one
MiningThread(n) ==
    \/ CreateBlockUpdate(n)
    \/ CreateBlockGather(n)
    \/ MinePoll(n)
    \/ MineHash(n)
    \/ CreateBlockAdd(n)
    \/ CreateBlockAddUpdate(n)
    \/ CreateBlockBroadcast(n)
    \/ CreateBlockBroadcastHeader(n)

ListenerThread(n, k) ==
    \/ HandleBlockAdd(n, k)
    \/ HandleBlockUpdate(n, k)
    \/ HandleBlockClear(n, k)

SpecMinerFair ==
    /\ SpecMiner
    /\ \A k \in Handlers : WF_vars(ListenerThread(Me, k))

(***************************************************************************)
(* SpecNet: the honest miners of Nodes, fully connected.  A create_block   *)
(* that returns a block is two steps, the block mined and the block added  *)
(* and broadcast; a block message is handled in one step.                  *)
(***************************************************************************)
NetInit ==
    /\ sha = (Genesis.header :> GenesisHash)
    /\ InitNodes

\* create_block from _update to the return of Block.new with a block
NetMine(n) ==
    /\ miner[n].pc = "idle"
    /\ ~stop_mine[n]
    /\ clock < ClockStart + MaxNetBlocks
    /\ LET hbm == hash_block_map[n]
           ecm == endhash_clen_map[n]
           upd == update_balance(hbm, ecm)
       IN /\ added_transactions' = [added_transactions EXCEPT ![n] = update_added(hbm, ecm)]
          /\ IF upd.raise
             THEN /\ miner' = [miner EXCEPT ![n] = [IdleMiner EXCEPT !.pc = "crashed"]]
                  /\ UNCHANGED <<sha, balance>>
             ELSE /\ balance' = [balance EXCEPT ![n] = upd.balance]
                  /\ \E gathered_tx \in gather_transactions(
                           all_transactions[n] \ update_added(hbm, ecm), upd.balance, n, clock),
                        h \in FreshHashes :
                        LET header == [prev_hash |-> hash1_dic(resolve(hbm, ecm).header),
                                       root |-> MerkleRoot(gathered_tx),
                                       timestamp |-> clock,
                                       nonce |-> 1]
                        IN /\ sha' = sha @@ (header :> h)
                           /\ miner' = [miner EXCEPT ![n] =
                                          [pc |-> "add", last_blk |-> resolve(hbm, ecm),
                                           gathered_tx |-> gathered_tx, header |-> header]]
    /\ clock' = clock + 1
    /\ UNCHANGED <<advVars, spvVars, storeVars, all_transactions, stop_mine, handler, chan>>

\* create_block from add_block to its end
NetPublish(n) ==
    /\ miner[n].pc = "add"
    /\ LET block == MinedBlock(n)
           hbm == hash_block_map[n]
           ecm == endhash_clen_map[n]
           ok == BlockValidate(block) = "ok" /\ BlockchainVerify(hbm, block) = "ok"
           hbm2 == IF ok THEN AddedBlocks(hbm, block) ELSE hbm
           ecm2 == IF ok THEN AddedTips(hbm, ecm, block) ELSE ecm
           upd == update_balance(hbm2, ecm2)
       IN /\ hash_block_map' = [hash_block_map EXCEPT ![n] = hbm2]
          /\ endhash_clen_map' = [endhash_clen_map EXCEPT ![n] = ecm2]
          /\ IF ok /\ ~upd.raise
             THEN /\ balance' = [balance EXCEPT ![n] = upd.balance]
                  /\ added_transactions' = [added_transactions EXCEPT ![n] =
                        update_added(hbm2, ecm2) \cup SeqToSet(miner[n].gathered_tx)]
                  /\ chan' = Broadcast(n, block)
                  /\ headers_sent' = [headers_sent EXCEPT ![n] = Append(@, block.header)]
                  /\ miner' = [miner EXCEPT ![n] = IdleMiner]
             ELSE /\ added_transactions' = [added_transactions EXCEPT ![n] =
                        IF ok THEN update_added(hbm2, ecm2) ELSE @]
                  /\ miner' = [miner EXCEPT ![n] = [IdleMiner EXCEPT !.pc = "crashed"]]
                  /\ UNCHANGED <<balance, chan, headers_sent>>
    /\ UNCHANGED <<dsVars, overlayVars, merkleVars, lock, thread, spvVars, sha, clock,
                   all_transactions, stop_mine, handler>>

\* _handle_block of the oldest block message in flight from src to n: the
\* Event set, add_block, the Event cleared; an exception of add_block ends
\* the handler before the Event is cleared
NetDeliver(n, src) ==
    /\ chan[src][n] # <<>>
    /\ LET block == Head(chan[src][n])
           hbm == hash_block_map[n]
           ecm == endhash_clen_map[n]
           ok == BlockValidate(block) = "ok" /\ BlockchainVerify(hbm, block) = "ok"
           hbm2 == IF ok THEN AddedBlocks(hbm, block) ELSE hbm
           ecm2 == IF ok THEN AddedTips(hbm, ecm, block) ELSE ecm
           upd == update_balance(hbm2, ecm2)
       IN /\ hash_block_map' = [hash_block_map EXCEPT ![n] = hbm2]
          /\ endhash_clen_map' = [endhash_clen_map EXCEPT ![n] = ecm2]
          /\ added_transactions' = [added_transactions EXCEPT ![n] =
                IF ok THEN update_added(hbm2, ecm2) ELSE @]
          /\ balance' = [balance EXCEPT ![n] = IF ok /\ ~upd.raise THEN upd.balance ELSE @]
          /\ stop_mine' = [stop_mine EXCEPT ![n] = ~(ok /\ ~upd.raise)]
    /\ chan' = [chan EXCEPT ![src][n] = Tail(@)]
    /\ UNCHANGED <<advVars, spvVars, sha, clock, all_transactions, miner, handler>>

NetNext ==
    \/ \E n \in Nodes : NetMine(n)
    \/ \E n \in Nodes : NetPublish(n)
    \/ \E n \in Nodes, src \in Nodes : NetDeliver(n, src)

SpecNet == NetInit /\ [][NetNext]_vars

(***************************************************************************)
(* The SPV client and the answers of miners to its requests.               *)
(*                                                                         *)
(* A reply is the text a peer sends back: <<"spv">> or another spelling of *)
(* the stub, <<"json", blk_hash, proof, last_blk_hash>> for the JSON       *)
(* object of a transaction proof, <<"int", n>> for str(n).                 *)
(***************************************************************************)
\* algo.hash1(item): a digest of the text, one per text
hash1(item) == <<"hash1", item>>

\* MerkleTree(items).get_proof(entry): what stands beside the leaf of entry
\* on its way to the root, that is the place of the leaf and the other
\* leaves
GetProof(items, entry) ==
    LET leaves == Dedup(items)
        pos == CHOOSE i \in DOMAIN leaves : leaves[i] = entry
    IN <<"proof", pos, SubSeq(leaves, 1, pos - 1) \o SubSeq(leaves, pos + 1, Len(leaves))>>

\* the root that hashing entry along proof ends at
Rehash(entry, proof) ==
    <<"root", SubSeq(proof[3], 1, proof[2] - 1) \o <<entry>>
                \o SubSeq(proof[3], proof[2], Len(proof[3]))>>

\* merkle_tree.verify_proof(entry, proof, root)
verify_proof(entry, proof, root) == Rehash(entry, proof) = root

\* Block.get_transaction_proof(tx_hash)
block_get_transaction_proof(block, tx_hash) ==
    IF \E i \in DOMAIN block.transactions : hash1(block.transactions[i]) = tx_hash
    THEN LET i == CHOOSE j \in DOMAIN block.transactions :
                    /\ hash1(block.transactions[j]) = tx_hash
                    /\ \A k \in 1..(j - 1) : hash1(block.transactions[k]) # tx_hash
         IN GetProof(block.transactions, block.transactions[i])
    ELSE None

\* the loop of get_transaction_proof_in_fork over blocks
RECURSIVE first_proof(_, _)
first_proof(blocks, tx_hash) ==
    IF blocks = <<>> THEN None
    ELSE LET proof == block_get_transaction_proof(Head(blocks), tx_hash)
         IN IF proof # None THEN <<hash1_dic(Head(blocks).header), proof>>
            ELSE first_proof(Tail(blocks), tx_hash)

\* get_transaction_proof_in_fork over every stored block, in no fork's order
get_transaction_proof_anywhere(hbm, tx_hash, last_block) ==
    IF \E h \in DOMAIN hbm : block_get_transaction_proof(hbm[h], tx_hash) # None
    THEN LET h == CHOOSE g \in DOMAIN hbm :
                    block_get_transaction_proof(hbm[g], tx_hash) # None
         IN <<h, block_get_transaction_proof(hbm[h], tx_hash)>>
    ELSE None

\* Blockchain.get_transaction_proof_in_fork(tx_hash, last_block)
get_transaction_proof_in_fork(hbm, tx_hash, last_block) ==
    first_proof(get_blocks_by_fork(hbm, last_block), tx_hash)

\* Miner.get_transaction_proof(tx_hash)
get_transaction_proof(hbm, ecm, tx_hash) ==
    LET last_blk == resolve(hbm, ecm)
        res == get_transaction_proof_in_fork(hbm, tx_hash, last_blk)
    IN IF res = None THEN None
       ELSE <<res[1], res[2], hash1_dic(last_blk.header)>>

\* _MinerListener._handle_transaction_proof: the reply it sends
handle_transaction_proof(hbm, ecm, tx_hash) ==
    LET tup == get_transaction_proof(hbm, ecm, tx_hash)
    IN IF tup = None THEN <<"json", NoneHash, None, NoneHash>>
       ELSE <<"json", tup[1], tup[2], tup[3]>>

\* rep.lower() = "spv"
IsStub(rep) == Len(rep) = 1 /\ rep[1] \in {"spv", "Spv", "SPV"}

\* replies.count(rep)
Count(replies, rep) == Cardinality({i \in DOMAIN replies : replies[i] = rep})

\* _process_replies with the first reply that is not a stub taken
process_replies_first(replies) ==
    LET real == SelectSeq(replies, LAMBDA rep : ~IsStub(rep))
    IN IF real = <<>> THEN [raise |-> TRUE, reply |-> None]
       ELSE [raise |-> FALSE, reply |-> real[1]]

\* _process_replies with an all-nulls answer in place of the exception
process_replies_lenient(replies) ==
    LET real == SelectSeq(replies, LAMBDA rep : ~IsStub(rep))
    IN IF real = <<>>
       THEN [raise |-> FALSE,
             reply |-> IF \E i \in DOMAIN replies : replies[i][1] = "int"
                       THEN <<"int", 0>> ELSE <<"json", NoneHash, None, NoneHash>>]
       ELSE LET i == CHOOSE j \in DOMAIN real :
                       /\ \A k \in DOMAIN real : Count(real, real[k]) <= Count(real, real[j])
                       /\ \A k \in 1..(j - 1) : Count(real, real[k]) < Count(real, real[j])
            IN [raise |-> FALSE, reply |-> real[i]]

\* SPVClient._process_replies(replies), before json.loads: max(replies,
\* key=replies.count) is the first reply of the greatest count
process_replies(replies) ==
    LET real == SelectSeq(replies, LAMBDA rep : ~IsStub(rep))
    IN IF real = <<>> THEN [raise |-> TRUE, reply |-> None]
       ELSE LET i == CHOOSE j \in DOMAIN real :
                       /\ \A k \in DOMAIN real : Count(real, real[k]) <= Count(real, real[j])
                       /\ \A k \in 1..(j - 1) : Count(real, real[k]) < Count(real, real[j])
            IN [raise |-> FALSE, reply |-> real[i]]

\* verify_transaction_proof with last_blk_hash not looked up
verify_transaction_proof_one_hash(headers, own_tx, tx_hash, replies) ==
    LET p == process_replies(replies)
        blk_hash == p.reply[2]
        proof == p.reply[3]
    IN IF p.raise THEN "No miner replies for request."
       ELSE IF p.reply[1] # "json" THEN "TypeError"
       ELSE IF proof = None THEN "False"
       ELSE IF blk_hash \notin DOMAIN headers
            THEN "Invalid transaction proof reply."
       ELSE IF tx_hash \notin DictKeys(own_tx) THEN "KeyError"
       ELSE IF ~verify_proof(DictGet(own_tx, tx_hash), proof, headers[blk_hash].root)
            THEN "Transaction proof verification failed."
       ELSE "True"

\* SPVClient.verify_transaction_proof(tx_hash), from the replies on: "True",
\* "False", or the exception it raises
verify_transaction_proof(headers, own_tx, tx_hash, replies) ==
    LET p == process_replies(replies)
        blk_hash == p.reply[2]
        proof == p.reply[3]
        last_blk_hash == p.reply[4]
    IN IF p.raise THEN "No miner replies for request."
       ELSE IF p.reply[1] # "json" THEN "TypeError"
       ELSE IF proof = None THEN "False"
       ELSE IF blk_hash \notin DOMAIN headers \/ last_blk_hash \notin DOMAIN headers
            THEN "Invalid transaction proof reply."
       ELSE IF tx_hash \notin DictKeys(own_tx) THEN "KeyError"
       ELSE IF ~verify_proof(DictGet(own_tx, tx_hash), proof, headers[blk_hash].root)
            THEN "Transaction proof verification failed."
       ELSE "True"

\* SPVClient.request_balance(), from the replies on: "int" when it returns
\* the number of the reply chosen, or the exception it raises
request_balance(replies) ==
    LET p == process_replies(replies)
    IN IF p.raise THEN "No miner replies for request."
       ELSE IF p.reply[1] # "int" THEN "TypeError"
       ELSE "int"

\* add_block_header with the test against TARGET left out
AddedHeaderUnchecked(headers, header) ==
    IF header.prev_hash \notin DOMAIN headers
    THEN [result |-> "Previous block does not exist.", headers |-> headers]
    ELSE [result |-> "ok",
          headers |-> [h \in DOMAIN headers \cup {hash1_dic(header)} |->
                          IF h = hash1_dic(header) THEN header ELSE headers[h]]]

\* SPVClient.add_block_header(header): how it ends and the map it leaves
AddedHeader(headers, header) ==
    IF hash1_dic(header) >= TARGET
    THEN [result |-> "Invalid block header hash.", headers |-> headers]
    ELSE IF header.prev_hash \notin DOMAIN headers
    THEN [result |-> "Previous block does not exist.", headers |-> headers]
    ELSE [result |-> "ok",
          headers |-> [h \in DOMAIN headers \cup {hash1_dic(header)} |->
                          IF h = hash1_dic(header) THEN header ELSE headers[h]]]

\* the miner whose store answers the SPV client, and its key
SpvMiner == CHOOSE n \in Stores : \A m \in Stores : n <= m
\* the keys of the SPV client and of the vendor it pays: no miner's
SpvKey == Cardinality(Nodes) + 1
Vendor == SpvKey + 1

\* the miner pays the client
FundTx == NewTransaction(SpvMiner, SpvKey, 50, SpvMiner, 201)
\* what create_transaction(Vendor, 10) of the client makes
SpvTx == NewTransaction(SpvKey, Vendor, 10, SpvKey, 202)
\* a transaction to the client with the signature of another key
ForgedToSpv == NewTransaction(Vendor, SpvKey, 50, SpvKey, 203)

SpvWorldSeq ==
    << [hash |-> 1, block |-> MakeBlock(GenesisHash, 1338, 1, <<CoinbaseTx(1, 1)>>)],
       [hash |-> 2, block |-> MakeBlock(1, 1339, 1, <<CoinbaseTx(1, 2), FundTx>>)],
       \* the block with the transaction of the client
       [hash |-> 3, block |-> MakeBlock(2, 1340, 1, <<CoinbaseTx(1, 3), SpvTx>>)],
       \* a rival of it, of greater hash
       [hash |-> 4, block |-> MakeBlock(2, 1340, 1, <<CoinbaseTx(2, 4)>>)],
       \* a block on the block with the transaction
       [hash |-> 5, block |-> MakeBlock(3, 1341, 1, <<CoinbaseTx(1, 5)>>)],
       \* a header hash over the target
       [hash |-> 11, block |-> MakeBlock(GenesisHash, 1338, 2, <<CoinbaseTx(3, 9)>>)] >>

SpvWorld ==
    SubSeq(SpvWorldSeq, 1,
           IF SpvWorldSize < Len(SpvWorldSeq) THEN SpvWorldSize ELSE Len(SpvWorldSeq))

SpvSha ==
    [header \in {Genesis.header} \cup {SpvWorld[i].block.header : i \in DOMAIN SpvWorld} |->
        IF header = Genesis.header THEN GenesisHash
        ELSE LET i == CHOOSE j \in DOMAIN SpvWorld : SpvWorld[j].block.header = header
             IN SpvWorld[i].hash]

\* the transactions that peers send to the client in "t" messages
SpvInbound == {FundTx, PayTx, ForgedToSpv}
\* the transaction hashes the client asks a proof for
SpvAsked == {hash1(FundTx), hash1(SpvTx)}

\* the block of SpvWorld that holds the transaction of hash tx_hash
BlockOf(tx_hash) ==
    LET i == CHOOSE j \in DOMAIN SpvWorld :
                block_get_transaction_proof(SpvWorld[j].block, tx_hash) # None
    IN SpvWorld[i]

\* what a peer other than the miner sends back to "r": the stub of an SPV
\* client, or an answer of a miner with a store of its own or a made-up one
PeerReplies(tx_hash) ==
    { <<"spv">>,
      <<"json", NoneHash, None, NoneHash>>,
      <<"json", BlockOf(tx_hash).hash,
        block_get_transaction_proof(BlockOf(tx_hash).block, tx_hash),
        SpvWorld[Len(SpvWorld) - 1].hash>>,
      <<"json", BlockOf(tx_hash).hash,
        block_get_transaction_proof(SpvWorld[1].block, hash1(CoinbaseTx(1, 1))),
        BlockOf(tx_hash).hash>> }

SpvInit == sha = SpvSha /\ InitNodes

\* the miner adds a block, mined by itself or received, that it does not
\* hold: a block is broadcast once.  A block with a transaction of the
\* client exists once the client has sent the transaction.
SpvAdd(i) ==
    /\ hash1_dic(SpvWorld[i].block.header) \notin DOMAIN hash_block_map[SpvMiner]
    /\ \A j \in DOMAIN SpvWorld[i].block.transactions :
          SpvWorld[i].block.transactions[j].sender = SpvKey
          => SpvWorld[i].block.transactions[j] \in all_transactions[SpvMiner]
    /\ Add(SpvMiner, SpvWorld[i].block)

\* SPVClient.create_transaction(receiver, amount): the miner's listener
\* puts the transaction in its pool; the client's maps are not written
SpvCreateTransaction ==
    /\ all_transactions' = [all_transactions EXCEPT ![SpvMiner] =
          IF TransactionValidate(SpvTx) = "ok" /\ TransactionVerify(SpvTx)
          THEN @ \cup {SpvTx} ELSE @]
    /\ spv_call' = [NoCall EXCEPT !.op = "create", !.tx_hash = hash1(SpvTx),
                                  !.result = "ok"]
    /\ UNCHANGED <<advVars, sha, clock, storeVars, added_transactions, balance, stop_mine,
                   miner, handler, chan, hash_blkheader_map, hash_transactions_map>>

\* _SPVClientListener "t": SPVClient.add_transaction(tx_json)
SpvAddTransaction(tx) ==
    /\ IF ~TransactionVerify(tx)
       THEN /\ spv_call' = [NoCall EXCEPT !.op = "t", !.tx_hash = hash1(tx),
                   !.result = "New transaction failed signature verification."]
            /\ UNCHANGED hash_transactions_map
       ELSE IF SpvKey \notin {tx.sender, tx.receiver}
       THEN /\ spv_call' = [NoCall EXCEPT !.op = "t", !.tx_hash = hash1(tx),
                                         !.result = "discarded"]
            /\ UNCHANGED hash_transactions_map
       ELSE /\ spv_call' = [NoCall EXCEPT !.op = "t", !.tx_hash = hash1(tx),
                                         !.result = "ok"]
            /\ hash_transactions_map' = DictSet(hash_transactions_map, hash1(tx), tx)
    /\ UNCHANGED <<advVars, sha, clock, storeVars, minerVars, chan, hash_blkheader_map>>

\* _SPVClientListener "h": SPVClient.add_block_header(header)
SpvAddBlockHeader(header) ==
    /\ hash_blkheader_map' = AddedHeader(hash_blkheader_map, header).headers
    /\ spv_call' = [NoCall EXCEPT !.op = "h",
                       !.result = AddedHeader(hash_blkheader_map, header).result]
    /\ UNCHANGED <<advVars, sha, clock, storeVars, minerVars, chan, hash_transactions_map>>

\* SPVClient.verify_transaction_proof(tx_hash): the miner, the last of the
\* peers, answers from its store, the other peers as they like
SpvVerify(tx_hash, others) ==
    LET replies == others \o <<handle_transaction_proof(hash_block_map[SpvMiner],
                                   endhash_clen_map[SpvMiner], tx_hash)>>
    IN /\ spv_call' =
            [op |-> "verify", tx_hash |-> tx_hash, replies |-> replies,
             valid_reply |-> process_replies(replies).reply,
             result |-> verify_transaction_proof(hash_blkheader_map,
                            hash_transactions_map, tx_hash, replies)]
       /\ UNCHANGED <<advVars, sha, clock, storeVars, minerVars, chan, hash_blkheader_map,
                      hash_transactions_map>>

SpvNext ==
    \/ \E i \in DOMAIN SpvWorld : SpvAdd(i)
    \/ SpvCreateTransaction
    \/ \E tx \in SpvInbound : SpvAddTransaction(tx)
    \/ \E i \in DOMAIN SpvWorld : SpvAddBlockHeader(SpvWorld[i].block.header)
    \/ \E tx_hash \in SpvAsked :
          \E others \in [1..(NumPeers - 1) -> PeerReplies(tx_hash)] :
             SpvVerify(tx_hash, others)

SpecSpv == SpvInit /\ [][SpvNext]_vars

(***************************************************************************)
(* SpecQuorum: a new SPV client handed every list of replies, of stubs and *)
(* of answers of miners, to a request for a proof and for its balance.     *)
(***************************************************************************)
\* the transaction hash asked for in SpecQuorum
QuorumAsked == hash1(FundTx)

\* replies to "r": two spellings of the stub and two answers
ProofReplies ==
    { <<"spv">>, <<"SPV">>,
      <<"json", NoneHash, None, NoneHash>>,
      <<"json", GenesisHash, GetProof(<<FundTx>>, FundTx), GenesisHash>> }

\* replies to "x": two spellings of the stub and two balances
BalanceReplies == { <<"spv">>, <<"SPV">>, <<"int", 0>>, <<"int", 50>> }

ReplyLists(alphabet) == UNION {[1..len -> alphabet] : len \in 1..MaxReplies}

QuorumVerify(replies) ==
    /\ spv_call' =
          [op |-> "verify", tx_hash |-> QuorumAsked, replies |-> replies,
           valid_reply |-> process_replies(replies).reply,
           result |-> verify_transaction_proof(hash_blkheader_map,
                          hash_transactions_map, QuorumAsked, replies)]
    /\ UNCHANGED <<advVars, sha, clock, storeVars, minerVars, chan, hash_blkheader_map,
                   hash_transactions_map>>

QuorumBalance(replies) ==
    /\ spv_call' =
          [op |-> "balance", tx_hash |-> None, replies |-> replies,
           valid_reply |-> process_replies(replies).reply,
           result |-> request_balance(replies)]
    /\ UNCHANGED <<advVars, sha, clock, storeVars, minerVars, chan, hash_blkheader_map,
                   hash_transactions_map>>

QuorumNext ==
    \/ \E replies \in ReplyLists(ProofReplies) : QuorumVerify(replies)
    \/ \E replies \in ReplyLists(BalanceReplies) : QuorumBalance(replies)

SpecQuorum == SpvInit /\ [][QuorumNext]_vars

(***************************************************************************)
(* SpecLedger: a miner, whose store has been handed blocks of LedgerWorld  *)
(* and whose pool holds transactions of LedgerTxs, runs _update and        *)
(* _gather_transactions at the head of create_block.                       *)
(***************************************************************************)
\* key 1 pays key 4 what key 4 paid it
RefundTx == NewTransaction(1, 4, 50, 1, 104)
\* key 2 pays key 3: it can once PayTx has paid key 2
Pay2Tx == NewTransaction(2, 3, 30, 2, 105)
\* key 1 pays more than one reward
BigTx == NewTransaction(1, 3, 120, 1, 106)

LedgerWorld ==
    << [hash |-> 1, block |-> MakeBlock(GenesisHash, 1338, 1, <<CoinbaseTx(1, 1)>>)],
       \* key 4, which owns nothing, pays key 1
       [hash |-> 2, block |-> MakeBlock(1, 1339, 1, <<CoinbaseTx(3, 2), OverTx>>)],
       \* and gets it back
       [hash |-> 3, block |-> MakeBlock(2, 1340, 1, <<CoinbaseTx(3, 3), RefundTx>>)],
       \* a fork where nobody overspends
       [hash |-> 4, block |-> MakeBlock(1, 1339, 1, <<CoinbaseTx(1, 4), PayTx>>)],
       \* payment and refund in one block
       [hash |-> 5, block |-> MakeBlock(1, 1339, 2, <<CoinbaseTx(2, 5), OverTx, RefundTx>>)],
       \* a block without transactions, its root None
       [hash |-> 6, block |-> MakeBlock(1, 1339, 3, <<>>)] >>

LedgerSha ==
    [header \in {Genesis.header} \cup {LedgerWorld[i].block.header : i \in DOMAIN LedgerWorld} |->
        IF header = Genesis.header THEN GenesisHash
        ELSE LET i == CHOOSE j \in DOMAIN LedgerWorld : LedgerWorld[j].block.header = header
             IN LedgerWorld[i].hash]

\* the transactions peers send to the miner; all pass Transaction.verify
LedgerTxs == {PayTx, Pay2Tx, BigTx}

\* the store after Blockchain.new and add of each block of blocks in turn
RECURSIVE StoreAfter(_)
StoreAfter(blocks) ==
    IF blocks = <<>> THEN [blocks |-> NewBlockchainBlocks, tips |-> NewBlockchainTips]
    ELSE LET s == StoreAfter(SubSeq(blocks, 1, Len(blocks) - 1))
             block == blocks[Len(blocks)]
         IN IF BlockchainVerify(s.blocks, block) = "ok"
            THEN [blocks |-> AddedBlocks(s.blocks, block),
                  tips |-> AddedTips(s.blocks, s.tips, block)]
            ELSE s

\* the orders in which up to MaxAdds blocks of LedgerWorld are handed over
LedgerOrders ==
    UNION {{o \in [1..len -> DOMAIN LedgerWorld] :
               \A i, j \in 1..len : i # j => o[i] # o[j]} : len \in 0..MaxAdds}

LedgerInit ==
    /\ sha = LedgerSha
    /\ clock = ClockStart
    /\ \E o \in LedgerOrders :
          LET s == StoreAfter([i \in DOMAIN o |-> LedgerWorld[o[i]].block])
          IN /\ hash_block_map = [n \in Nodes |-> IF n = Me THEN s.blocks
                                                   ELSE NewBlockchainBlocks]
             /\ endhash_clen_map = [n \in Nodes |-> IF n = Me THEN s.tips
                                                     ELSE NewBlockchainTips]
    /\ \E pool \in SUBSET LedgerTxs :
          all_transactions = [n \in Nodes |-> IF n = Me THEN pool ELSE {}]
    /\ added_transactions = [n \in Nodes |-> {}]
    /\ balance = [n \in Nodes |-> <<>>]
    /\ stop_mine = [n \in Nodes |-> FALSE]
    /\ miner = [n \in Nodes |-> IdleMiner]
    /\ handler = [n \in Nodes |-> [k \in Handlers |-> IdleHandler]]
    /\ chan = [n \in Nodes |-> [m \in Nodes |-> <<>>]]
    /\ hash_blkheader_map = NewHeaders
    /\ hash_transactions_map = <<>>
    /\ spv_call = NoCall
    /\ mode = INIT_MODE
    /\ excluded_transactions = {}
    /\ withheld_blocks = <<>>
    /\ pubchain_count = 0
    /\ addresses = <<>>
    /\ peers = [a \in 1..NumHosts |-> <<>>]
    /\ node = [a \in 1..NumHosts |-> [pc |-> "new", pubkey |-> a]]
    /\ inbox = [a \in 1..NumHosts |-> <<>>]
    /\ headers_sent = [n \in Nodes |-> <<>>]
    /\ lock = [l \in Locks |-> Unlocked]
    /\ thread = [t \in Threads |-> <<>>]
    /\ merkle_items = <<>>
    /\ merkle_call = NoCall

LedgerNext ==
    \/ CreateBlockUpdate(Me)
    \/ CreateBlockGather(Me)

SpecLedger == LedgerInit /\ [][LedgerNext]_vars

(***************************************************************************)
(* The double-spend miner: DoubleSpendMiner and its listener.  The miner   *)
(* is Me; an honest miner has sent it two blocks built on a block of Me,   *)
(* the first with the payment of Me to the colluding SPV client, and       *)
(* peers send it transactions.  The Miner that double_spend.py extends     *)
(* (create_block with a prev_hash, _get_tx_pool, _broadcast_block) is not  *)
(* among the sources: create_block is taken to be the create_block of      *)
(* miner.py, mining on prev_hash when one is given, gathering from         *)
(* _get_tx_pool() and publishing with _broadcast_block.  The peers of the  *)
(* miner are known: find_peer_by_clsname finds the client and the vendor.  *)
(***************************************************************************)
\* the honest miner
Honest == Me + 1

\* the transactions peers send: Me pays the client, the client pays the
\* vendor, the client pays Me, and a payment between others
AdvTx ==
    [fund |-> NewTransaction(Me, SpvKey, 50, Me, 301),
     buy |-> NewTransaction(SpvKey, Vendor, 50, SpvKey, 302),
     refund |-> NewTransaction(SpvKey, Me, 50, SpvKey, 303),
     other |-> NewTransaction(Honest, Vendor, 10, Honest, 304)]

\* a block of Me that every node has, and the blocks of the honest miner
AdvWorld ==
    << [hash |-> 1, block |-> MakeBlock(GenesisHash, 1338, 1, <<CoinbaseTx(Me, 1)>>)],
       [hash |-> 2, block |-> MakeBlock(1, 1339, 1, <<CoinbaseTx(Honest, 2), AdvTx.fund>>)],
       [hash |-> 3, block |-> MakeBlock(2, 1340, 1, <<CoinbaseTx(Honest, 3), AdvTx.buy>>)] >>

AdvSha ==
    [header \in {Genesis.header} \cup {AdvWorld[i].block.header : i \in DOMAIN AdvWorld} |->
        IF header = Genesis.header THEN GenesisHash
        ELSE LET i == CHOOSE j \in DOMAIN AdvWorld : AdvWorld[j].block.header = header
             IN AdvWorld[i].hash]

\* Me holds its first block; the blocks of the honest miner are in flight
AdvInit ==
    /\ sha = AdvSha
    /\ clock = ClockStart
    /\ LET s == StoreAfter(<<AdvWorld[1].block>>)
       IN /\ hash_block_map = [n \in Nodes |-> IF n = Me THEN s.blocks
                                                ELSE NewBlockchainBlocks]
          /\ endhash_clen_map = [n \in Nodes |-> IF n = Me THEN s.tips
                                                  ELSE NewBlockchainTips]
    /\ all_transactions = [n \in Nodes |-> {}]
    /\ added_transactions = [n \in Nodes |-> {}]
    /\ balance = [n \in Nodes |-> <<>>]
    /\ stop_mine = [n \in Nodes |-> FALSE]
    /\ miner = [n \in Nodes |-> IdleMiner]
    /\ handler = [n \in Nodes |-> [k \in Handlers |-> IdleHandler]]
    /\ chan = [src \in Nodes |-> [dst \in Nodes |->
                 IF src = Honest /\ dst = Me
                 THEN <<AdvWorld[2].block, AdvWorld[3].block>> ELSE <<>>]]
    /\ hash_blkheader_map = NewHeaders
    /\ hash_transactions_map = <<>>
    /\ spv_call = NoCall
    /\ mode = INIT_MODE
    /\ excluded_transactions = {}
    /\ withheld_blocks = <<>>
    /\ pubchain_count = 0
    /\ addresses = <<>>
    /\ peers = [a \in 1..NumHosts |-> <<>>]
    /\ node = [a \in 1..NumHosts |-> [pc |-> "new", pubkey |-> a]]
    /\ inbox = [a \in 1..NumHosts |-> <<>>]
    /\ headers_sent = [n \in Nodes |-> <<>>]
    /\ lock = [l \in Locks |-> Unlocked]
    /\ thread = [t \in Threads |-> <<>>]
    /\ merkle_items = <<>>
    /\ merkle_call = NoCall

\* DoubleSpendMiner.ds_handle_block: mode, withheld_blocks and
\* pubchain_count after it
ds_handle_block(m, w, c, pubkey, blk) ==
    IF m = INIT_MODE
    THEN IF \E i \in DOMAIN blk.transactions :
               /\ blk.transactions[i].sender = pubkey
               /\ blk.transactions[i].receiver = SpvKey
         THEN [mode |-> FORK_MODE, withheld_blocks |-> Append(w, blk), pubchain_count |-> c]
         ELSE [mode |-> m, withheld_blocks |-> w, pubchain_count |-> c]
    ELSE IF m = FORK_MODE
    THEN [mode |-> m, withheld_blocks |-> w, pubchain_count |-> c + 1]
    ELSE [mode |-> m, withheld_blocks |-> w, pubchain_count |-> c]

\* ds_handle_transaction with the transition to FIRE_MODE from any mode
ds_handle_transaction_any_mode(m, pubkey, recv_tx) ==
    [mode |-> IF recv_tx.sender = SpvKey /\ recv_tx.receiver = pubkey
              THEN FIRE_MODE ELSE m,
     excluded |-> recv_tx.sender = SpvKey /\ recv_tx.receiver = Vendor]

\* ds_handle_transaction that excludes nothing
ds_handle_transaction_all(m, pubkey, recv_tx) ==
    [mode |-> IF m = FORK_MODE /\ recv_tx.sender = SpvKey /\ recv_tx.receiver = pubkey
              THEN FIRE_MODE ELSE m,
     excluded |-> FALSE]

\* DoubleSpendMiner.ds_handle_transaction: the mode after it and what it
\* returns, TRUE when it has put the transaction in excluded_transactions
ds_handle_transaction(m, pubkey, recv_tx) ==
    [mode |-> IF m = FORK_MODE /\ recv_tx.sender = SpvKey /\ recv_tx.receiver = pubkey
              THEN FIRE_MODE ELSE m,
     excluded |-> recv_tx.sender = SpvKey /\ recv_tx.receiver = Vendor]

\* DoubleSpendMiner.create_block up to the return of Block.new with a block
DsMine(n) ==
    /\ miner[n].pc = "idle"
    /\ ~stop_mine[n]
    /\ clock < ClockStart + MaxAttempts
    /\ LET hbm == hash_block_map[n]
           ecm == endhash_clen_map[n]
           upd == update_balance(hbm, ecm)
           pool == (all_transactions[n] \ update_added(hbm, ecm)) \ excluded_transactions
           prev_hash == IF mode # INIT_MODE
                        THEN hash1_dic(withheld_blocks[Len(withheld_blocks)].header)
                        ELSE hash1_dic(resolve(hbm, ecm).header)
       IN IF mode # INIT_MODE /\ withheld_blocks = <<>>
          THEN \* withheld_blocks[-1] raises IndexError
               /\ miner' = [miner EXCEPT ![n] = [IdleMiner EXCEPT !.pc = "crashed"]]
               /\ UNCHANGED <<sha, balance, added_transactions>>
          ELSE
          /\ added_transactions' = [added_transactions EXCEPT ![n] = update_added(hbm, ecm)]
          /\ IF upd.raise
             THEN /\ miner' = [miner EXCEPT ![n] = [IdleMiner EXCEPT !.pc = "crashed"]]
                  /\ UNCHANGED <<sha, balance>>
             ELSE /\ balance' = [balance EXCEPT ![n] = upd.balance]
                  /\ \E gathered_tx \in gather_transactions(pool, upd.balance, n, clock),
                        h \in FreshHashes :
                        LET header == [prev_hash |-> prev_hash,
                                       root |-> MerkleRoot(gathered_tx),
                                       timestamp |-> clock,
                                       nonce |-> 1]
                        IN /\ sha' = sha @@ (header :> h)
                           /\ miner' = [miner EXCEPT ![n] =
                                          [pc |-> "add", last_blk |-> resolve(hbm, ecm),
                                           gathered_tx |-> gathered_tx, header |-> header]]
    /\ clock' = clock + 1
    /\ UNCHANGED <<dsVars, overlayVars, merkleVars, threadVars, spvVars, storeVars, all_transactions,
                   stop_mine, handler, chan>>

\* _broadcast_block that also broadcasts the block it withholds in
\* FORK_MODE
ds_broadcast_block_leak(m, w, c, block) ==
    IF m = FORK_MODE
    THEN [mode |-> m, withheld_blocks |-> Append(w, block), sent |-> <<block>>]
    ELSE IF m = FIRE_MODE /\ Len(w) + 1 > c
    THEN [mode |-> INIT_MODE, withheld_blocks |-> <<>>, sent |-> Append(w, block)]
    ELSE IF m = FIRE_MODE
    THEN [mode |-> m, withheld_blocks |-> Append(w, block), sent |-> <<>>]
    ELSE [mode |-> m, withheld_blocks |-> w, sent |-> <<block>>]

\* DoubleSpendMiner._broadcast_block and the push_blocks it may call: mode
\* and withheld_blocks after it, and the blocks it has broadcast, in order
ds_broadcast_block(m, w, c, block) ==
    IF m = FORK_MODE
    THEN [mode |-> m, withheld_blocks |-> Append(w, block), sent |-> <<>>]
    ELSE IF m = FIRE_MODE /\ Len(Append(w, block)) > c
    THEN [mode |-> INIT_MODE, withheld_blocks |-> <<>>, sent |-> Append(w, block)]
    ELSE IF m = FIRE_MODE
    THEN [mode |-> m, withheld_blocks |-> Append(w, block), sent |-> <<>>]
    ELSE [mode |-> m, withheld_blocks |-> w, sent |-> <<block>>]

\* DoubleSpendMiner.create_block from add_block to its end, with
\* _broadcast_block and the push_blocks it may call
DsPublish(n) ==
    /\ miner[n].pc = "add"
    /\ LET block == MinedBlock(n)
           hbm == hash_block_map[n]
           ecm == endhash_clen_map[n]
           ok == BlockValidate(block) = "ok" /\ BlockchainVerify(hbm, block) = "ok"
           hbm2 == IF ok THEN AddedBlocks(hbm, block) ELSE hbm
           ecm2 == IF ok THEN AddedTips(hbm, ecm, block) ELSE ecm
           upd == update_balance(hbm2, ecm2)
           r == ds_broadcast_block(mode, withheld_blocks, pubchain_count, block)
           Sent(list) == [src \in Nodes |-> [dst \in Nodes |->
                             IF src = n /\ dst \in Peers(n) THEN chan[src][dst] \o list
                             ELSE chan[src][dst]]]
       IN /\ hash_block_map' = [hash_block_map EXCEPT ![n] = hbm2]
          /\ endhash_clen_map' = [endhash_clen_map EXCEPT ![n] = ecm2]
          /\ IF ok /\ ~upd.raise
             THEN /\ balance' = [balance EXCEPT ![n] = upd.balance]
                  /\ added_transactions' = [added_transactions EXCEPT ![n] =
                        update_added(hbm2, ecm2) \cup SeqToSet(miner[n].gathered_tx)]
                  /\ miner' = [miner EXCEPT ![n] = IdleMiner]
                  /\ mode' = r.mode
                  /\ withheld_blocks' = r.withheld_blocks
                  /\ chan' = Sent(r.sent)
             ELSE /\ added_transactions' = [added_transactions EXCEPT ![n] =
                        IF ok THEN update_added(hbm2, ecm2) ELSE @]
                  /\ miner' = [miner EXCEPT ![n] = [IdleMiner EXCEPT !.pc = "crashed"]]
                  /\ UNCHANGED <<balance, chan, mode, withheld_blocks>>
    /\ UNCHANGED <<excluded_transactions, pubchain_count, overlayVars, merkleVars, threadVars, spvVars,
                   sha, clock, all_transactions, stop_mine, handler>>

\* _MinerListener._handle_block of block at n, from stop_mine.set() to
\* stop_mine.clear(), which an exception of add_block leaves out
DsSuperHandleBlock(n, block) ==
    LET hbm == hash_block_map[n]
        ecm == endhash_clen_map[n]
        ok == BlockValidate(block) = "ok" /\ BlockchainVerify(hbm, block) = "ok"
        hbm2 == IF ok THEN AddedBlocks(hbm, block) ELSE hbm
        ecm2 == IF ok THEN AddedTips(hbm, ecm, block) ELSE ecm
        upd == update_balance(hbm2, ecm2)
    IN /\ hash_block_map' = [hash_block_map EXCEPT ![n] = hbm2]
       /\ endhash_clen_map' = [endhash_clen_map EXCEPT ![n] = ecm2]
       /\ added_transactions' = [added_transactions EXCEPT ![n] =
             IF ok THEN update_added(hbm2, ecm2) ELSE @]
       /\ balance' = [balance EXCEPT ![n] = IF ok /\ ~upd.raise THEN upd.balance ELSE @]
       /\ stop_mine' = [stop_mine EXCEPT ![n] = ~(ok /\ ~upd.raise)]

\* _DoubleSpendMinerListener._handle_block of the oldest block message in
\* flight from src to n: ds_handle_block, then the _handle_block of a miner.
\* When ds_handle_block activates FORK_MODE the step ends after the
\* assignment to mode, and the thread, the first one that is free, goes on
\* in DsHandleBlockAppend.
DsHandleBlock(n, src) ==
    /\ chan[src][n] # <<>>
    /\ LET block == Head(chan[src][n])
           r == ds_handle_block(mode, withheld_blocks, pubchain_count, n, block)
       IN IF r.withheld_blocks # withheld_blocks
          THEN /\ mode' = r.mode
               /\ \E k \in Handlers :
                     /\ handler[n][k].pc = "idle"
                     /\ \A j \in Handlers : j < k => handler[n][j].pc # "idle"
                     /\ handler' = [handler EXCEPT ![n][k] =
                                      [pc |-> "append", block |-> block]]
               /\ UNCHANGED <<withheld_blocks, pubchain_count, storeVars,
                              added_transactions, balance, stop_mine>>
          ELSE /\ mode' = r.mode
               /\ pubchain_count' = r.pubchain_count
               /\ DsSuperHandleBlock(n, block)
               /\ UNCHANGED <<withheld_blocks, handler>>
    /\ chan' = [chan EXCEPT ![src][n] = Tail(@)]
    /\ UNCHANGED <<excluded_transactions, overlayVars, merkleVars, threadVars, spvVars, sha, clock,
                   all_transactions, miner>>

\* ds_handle_block from the append to withheld_blocks on, then the
\* _handle_block of a miner
DsHandleBlockAppend(n, k) ==
    /\ handler[n][k].pc = "append"
    /\ withheld_blocks' = Append(withheld_blocks, handler[n][k].block)
    /\ DsSuperHandleBlock(n, handler[n][k].block)
    /\ handler' = [handler EXCEPT ![n][k] = IdleHandler]
    /\ UNCHANGED <<mode, excluded_transactions, pubchain_count, overlayVars, merkleVars,
                   threadVars, spvVars, sha, clock, all_transactions, miner, chan>>

\* _DoubleSpendMinerListener._handle_transaction: ds_handle_transaction,
\* and add_transaction when it has returned False
DsHandleTransaction(n, tx) ==
    /\ LET r == ds_handle_transaction(mode, n, tx)
       IN /\ mode' = r.mode
          /\ excluded_transactions' =
                IF r.excluded THEN excluded_transactions \cup {tx} ELSE excluded_transactions
          /\ all_transactions' = [all_transactions EXCEPT ![n] =
                IF ~r.excluded /\ TransactionValidate(tx) = "ok" /\ TransactionVerify(tx)
                THEN @ \cup {tx} ELSE @]
    /\ UNCHANGED <<withheld_blocks, pubchain_count, overlayVars, merkleVars, threadVars, spvVars, sha,
                   clock, storeVars, added_transactions, balance, stop_mine, miner,
                   handler, chan>>

DsNext ==
    \/ DsMine(Me)
    \/ DsPublish(Me)
    \/ DsHandleBlock(Me, Honest)
    \/ \E k \in Handlers : DsHandleBlockAppend(Me, k)
    \/ \E k \in DOMAIN AdvTx : DsHandleTransaction(Me, AdvTx[k])

SpecDs == AdvInit /\ [][DsNext]_vars

(***************************************************************************)
(* The selfish miner: SelfishMiner and its listener, of selfish.py, with   *)
(* BE_SELFISH true.  The miner is Me, it starts as AdvInit says, and its   *)
(* peers are known.                                                        *)
(***************************************************************************)
\* push_blocks that leaves the blocks it broadcasts in the queue
push_blocks_kept(w, num) ==
    IF num > Len(w) THEN [sent |-> <<>>, withheld_blocks |-> w, raised |-> TRUE]
    ELSE IF num = 0 THEN [sent |-> <<>>, withheld_blocks |-> w, raised |-> FALSE]
    ELSE [sent |-> <<Head(w)>>, withheld_blocks |-> w, raised |-> TRUE]

\* SelfishMiner.push_blocks(num) on the queue w: the blocks it broadcasts,
\* the queue after it and whether it raises.  The print that follows the
\* broadcast of a block reads self._worker, which a miner does not have:
\* the AttributeError ends the call after the first block.
push_blocks(w, num) ==
    IF num > Len(w) THEN [sent |-> <<>>, withheld_blocks |-> w, raised |-> TRUE]
    ELSE IF num = 0 THEN [sent |-> <<>>, withheld_blocks |-> w, raised |-> FALSE]
    ELSE [sent |-> <<Head(w)>>, withheld_blocks |-> Tail(w), raised |-> TRUE]

\* SelfishMiner.create_block up to the return of the mined block
SelfishMine(n) ==
    /\ miner[n].pc = "idle"
    /\ ~stop_mine[n]
    /\ clock < ClockStart + MaxWithheld
    /\ LET hbm == hash_block_map[n]
           ecm == endhash_clen_map[n]
           upd == update_balance(hbm, ecm)
       IN /\ added_transactions' = [added_transactions EXCEPT ![n] = update_added(hbm, ecm)]
          /\ IF upd.raise
             THEN /\ miner' = [miner EXCEPT ![n] = [IdleMiner EXCEPT !.pc = "crashed"]]
                  /\ UNCHANGED <<sha, balance>>
             ELSE /\ balance' = [balance EXCEPT ![n] = upd.balance]
                  /\ \E gathered_tx \in gather_transactions(
                           all_transactions[n] \ update_added(hbm, ecm), upd.balance, n, clock),
                        h \in FreshHashes :
                        LET header == [prev_hash |-> hash1_dic(resolve(hbm, ecm).header),
                                       root |-> MerkleRoot(gathered_tx),
                                       timestamp |-> clock,
                                       nonce |-> 1]
                        IN /\ sha' = sha @@ (header :> h)
                           /\ miner' = [miner EXCEPT ![n] =
                                          [pc |-> "add", last_blk |-> resolve(hbm, ecm),
                                           gathered_tx |-> gathered_tx, header |-> header]]
    /\ clock' = clock + 1
    /\ UNCHANGED <<advVars, spvVars, storeVars, all_transactions, stop_mine, handler, chan>>

\* SelfishMiner.create_block from add_block to its end: the block is put
\* in withheld_blocks
SelfishPublish(n) ==
    /\ miner[n].pc = "add"
    /\ LET block == MinedBlock(n)
           hbm == hash_block_map[n]
           ecm == endhash_clen_map[n]
           ok == BlockValidate(block) = "ok" /\ BlockchainVerify(hbm, block) = "ok"
           hbm2 == IF ok THEN AddedBlocks(hbm, block) ELSE hbm
           ecm2 == IF ok THEN AddedTips(hbm, ecm, block) ELSE ecm
           upd == update_balance(hbm2, ecm2)
       IN /\ hash_block_map' = [hash_block_map EXCEPT ![n] = hbm2]
          /\ endhash_clen_map' = [endhash_clen_map EXCEPT ![n] = ecm2]
          /\ withheld_blocks' = IF ok THEN Append(withheld_blocks, block) ELSE withheld_blocks
          /\ added_transactions' = [added_transactions EXCEPT ![n] =
                IF ok THEN update_added(hbm2, ecm2) \cup SeqToSet(miner[n].gathered_tx) ELSE @]
          /\ balance' = [balance EXCEPT ![n] = IF ok /\ ~upd.raise THEN upd.balance ELSE @]
          /\ miner' = [miner EXCEPT ![n] =
                IF ok /\ ~upd.raise THEN IdleMiner ELSE [IdleMiner EXCEPT !.pc = "crashed"]]
    /\ UNCHANGED <<mode, excluded_transactions, pubchain_count, overlayVars, merkleVars,
                   threadVars, spvVars, sha, clock, all_transactions, stop_mine, handler, chan>>

\* _SelfishMinerListener.handle_client_data of the oldest block message in
\* flight from src to n: push_blocks, and _handle_block if it has returned
SelfishHandleBlock(n, src) ==
    /\ chan[src][n] # <<>>
    /\ LET block == Head(chan[src][n])
           qlen == Len(withheld_blocks)
           r == IF qlen >= 3 THEN push_blocks(withheld_blocks, 2)
                ELSE push_blocks(withheld_blocks, qlen)
           hbm == hash_block_map[n]
           ecm == endhash_clen_map[n]
           ok == /\ ~r.raised
                 /\ BlockValidate(block) = "ok"
                 /\ BlockchainVerify(hbm, block) = "ok"
           hbm2 == IF ok THEN AddedBlocks(hbm, block) ELSE hbm
           ecm2 == IF ok THEN AddedTips(hbm, ecm, block) ELSE ecm
           upd == update_balance(hbm2, ecm2)
       IN /\ withheld_blocks' = r.withheld_blocks
          /\ chan' = [s \in Nodes |-> [dst \in Nodes |->
                        IF s = n /\ dst \in Peers(n) THEN chan[s][dst] \o r.sent
                        ELSE IF s = src /\ dst = n THEN Tail(chan[s][dst])
                        ELSE chan[s][dst]]]
          /\ hash_block_map' = [hash_block_map EXCEPT ![n] = hbm2]
          /\ endhash_clen_map' = [endhash_clen_map EXCEPT ![n] = ecm2]
          /\ added_transactions' = [added_transactions EXCEPT ![n] =
                IF ok THEN update_added(hbm2, ecm2) ELSE @]
          /\ balance' = [balance EXCEPT ![n] = IF ok /\ ~upd.raise THEN upd.balance ELSE @]
          /\ stop_mine' = [stop_mine EXCEPT ![n] =
                IF r.raised THEN @ ELSE ~(ok /\ ~upd.raise)]
    /\ UNCHANGED <<mode, excluded_transactions, pubchain_count, overlayVars, merkleVars,
                   threadVars, spvVars, sha, clock, all_transactions, miner, handler>>

SelfishNext ==
    \/ SelfishMine(Me)
    \/ SelfishPublish(Me)
    \/ SelfishHandleBlock(Me, Honest)

SpecSelfish == AdvInit /\ [][SelfishNext]_vars

(***************************************************************************)
(* The overlay: TrustedServer and the startup of the nodes.  A process     *)
(* listens at each address; a descriptor is the address and the key of a   *)
(* process (its name, made anew with the key, is left out).  A process     *)
(* that is started again at an address has a new key and no peers.         *)
(***************************************************************************)
\* TrustedServer.add_address: the list after it
add_address(list, address) ==
    IF \E i \in DOMAIN list : list[i] = address THEN list ELSE Append(list, address)

\* NetNode.startup of the process at a, up to set_peers: the request "a",
\* answered by the server with its list
StartupRequest(a) ==
    /\ node[a].pc = "new"
    /\ peers' = [peers EXCEPT ![a] = addresses]
    /\ node' = [node EXCEPT ![a].pc = "asked"]
    /\ UNCHANGED <<addresses, inbox, dsVars, merkleVars, threadVars, spvVars, sha, clock, storeVars,
                   minerVars, chan>>

\* NetNode.startup of the process at a, its "n" message, and handle_client
\* of the server for it: add_address, then broadcast_address, which sends
\* the descriptor to the address of every entry of the list
StartupAnnounce(a) ==
    /\ node[a].pc = "asked"
    /\ LET data == [address |-> a, pubkey |-> node[a].pubkey]
           list == add_address(addresses, data)
           Entries(b) == Cardinality({i \in DOMAIN list : list[i].address = b})
       IN /\ addresses' = list
          /\ inbox' = [b \in DOMAIN inbox |->
                         inbox[b] \o [i \in 1..Entries(b) |-> data]]
    /\ node' = [node EXCEPT ![a].pc = "done"]
    /\ UNCHANGED <<peers, dsVars, merkleVars, threadVars, spvVars, sha, clock, storeVars, minerVars,
                   chan>>

\* the listener of the process at a handles the oldest "n" message in
\* flight to it: NetNode.add_peer
HandleNewPeer(a) ==
    /\ inbox[a] # <<>>
    /\ peers' = [peers EXCEPT ![a] =
                    IF Head(inbox[a]).address # a THEN Append(@, Head(inbox[a])) ELSE @]
    /\ inbox' = [inbox EXCEPT ![a] = Tail(@)]
    /\ UNCHANGED <<addresses, node, dsVars, merkleVars, threadVars, spvVars, sha, clock, storeVars,
                   minerVars, chan>>

\* the process at a ends and another is started at the address: new keys,
\* no peers
Restart(a) ==
    /\ node[a].pc = "done"
    /\ \A b \in DOMAIN node : node[b].pubkey <= NumHosts * MaxRestarts
    /\ node' = [node EXCEPT ![a] = [pc |-> "new", pubkey |-> @.pubkey + NumHosts]]
    /\ peers' = [peers EXCEPT ![a] = <<>>]
    /\ UNCHANGED <<addresses, inbox, dsVars, merkleVars, threadVars, spvVars, sha, clock, storeVars,
                   minerVars, chan>>

OverlayNext ==
    \/ \E a \in DOMAIN node : StartupRequest(a)
    \/ \E a \in DOMAIN node : StartupAnnounce(a)
    \/ \E a \in DOMAIN node : HandleNewPeer(a)
    \/ \E a \in DOMAIN node : Restart(a)

SpecOverlay == Init /\ [][OverlayNext]_vars

(***************************************************************************)
(* The Merkle tree of merkle_tree.py: a tree is made of a list of          *)
(* transactions, by the constructor or by add, and asked for the proof of  *)
(* one of them.                                                            *)
(***************************************************************************)
\* The MerkleTree made of list, by MerkleTree(list) or by MerkleTree() and
\* add(entry) for every entry of list: the exception that ends the making,
\* if any, and the fields of the tree.
MerkleTreeOf(list, by_add) ==
    LET empty == [raise |-> "", leaves_map |-> {}, root |-> None, is_built |-> TRUE]
        \* Node.__init__: "left.height + 1 if left is None else 0" reads
        \* left.height when left is None
        Node(left) == IF left = None THEN "AttributeError" ELSE ""
        \* _hash_items: "for i in enumerate(items): item = items[i]" indexes
        \* the list with a tuple
        hash_items == IF list = <<>> THEN "" ELSE "TypeError"
        \* add(entry) starts with a Node without children
        add == Node(None)
    IN IF by_add
       THEN (IF list = <<>> THEN empty ELSE [empty EXCEPT !.raise = add, !.is_built = FALSE])
       ELSE (IF hash_items = "" THEN empty ELSE [empty EXCEPT !.raise = hash_items,
                                                               !.is_built = FALSE])

\* a list of one to MaxLeaves transactions, with or without repeated ones
MerkleInit ==
    /\ merkle_items \in UNION {[1..len -> {PayTx, OverTx, ForgedTx, RefundTx}] :
                               len \in 1..MaxLeaves}
    /\ merkle_call = NoCall
    /\ sha = WorldSha
    /\ clock = ClockStart
    /\ hash_block_map = [n \in Nodes |-> NewBlockchainBlocks]
    /\ endhash_clen_map = [n \in Nodes |-> NewBlockchainTips]
    /\ all_transactions = [n \in Nodes |-> {}]
    /\ added_transactions = [n \in Nodes |-> {}]
    /\ balance = [n \in Nodes |-> <<>>]
    /\ stop_mine = [n \in Nodes |-> FALSE]
    /\ miner = [n \in Nodes |-> IdleMiner]
    /\ handler = [n \in Nodes |-> [k \in Handlers |-> IdleHandler]]
    /\ chan = [n \in Nodes |-> [m \in Nodes |-> <<>>]]
    /\ hash_blkheader_map = NewHeaders
    /\ hash_transactions_map = <<>>
    /\ spv_call = NoCall
    /\ mode = INIT_MODE
    /\ excluded_transactions = {}
    /\ withheld_blocks = <<>>
    /\ pubchain_count = 0
    /\ addresses = <<>>
    /\ peers = [a \in 1..NumHosts |-> <<>>]
    /\ node = [a \in 1..NumHosts |-> [pc |-> "new", pubkey |-> a]]
    /\ inbox = [a \in 1..NumHosts |-> <<>>]
    /\ headers_sent = [n \in Nodes |-> <<>>]
    /\ lock = [l \in Locks |-> Unlocked]
    /\ thread = [t \in Threads |-> <<>>]

\* verify_proof(entry, tree.get_proof(entry), tree.get_root()) for the
\* j-th entry of the list and the tree made of the list: what it returns, or
\* the exception it ends with.  A tree that has been made has no leaves,
\* and get_proof then raises KeyError at leaves_map[entry].
MerkleRoundTrip(j, by_add) ==
    /\ merkle_call = NoCall
    /\ LET tree == MerkleTreeOf(merkle_items, by_add)
       IN merkle_call' = [op |-> "round_trip", entry |-> merkle_items[j], by_add |-> by_add,
                          result |-> IF tree.raise # "" THEN tree.raise ELSE "KeyError"]
    /\ UNCHANGED <<merkle_items, dsVars, overlayVars, threadVars, spvVars, sha, clock, storeVars,
                   minerVars, chan>>

\* tree.get_root() for the tree made of the list: "root" when it returns a
\* hash, "None" when it returns None, or the exception the making ends with
MerkleBuild(by_add) ==
    /\ merkle_call = NoCall
    /\ LET tree == MerkleTreeOf(merkle_items, by_add)
       IN merkle_call' = [op |-> "build", by_add |-> by_add,
                          result |-> IF tree.raise # "" THEN tree.raise
                                     ELSE IF tree.root = None THEN "None" ELSE "root"]
    /\ UNCHANGED <<merkle_items, dsVars, overlayVars, threadVars, spvVars, sha, clock, storeVars,
                   minerVars, chan>>

MerkleNext ==
    \/ \E j \in DOMAIN merkle_items, by_add \in BOOLEAN : MerkleRoundTrip(j, by_add)
    \/ \E by_add \in BOOLEAN : MerkleBuild(by_add)

SpecMerkle == MerkleInit /\ [][MerkleNext]_vars

(***************************************************************************)
(* SpecRace: the honest miner Me with its mining thread and its listener   *)
(* threads, step by step as in SpecMiner.  Me has mined a block with its   *)
(* payment PayTx on its first block; the two blocks of the honest miner of *)
(* AdvWorld, a longer fork without PayTx, are in flight to it.             *)
(***************************************************************************)
RaceInit ==
    /\ sha = AdvSha @@ (World[4].block.header :> World[4].hash)
    /\ clock = ClockStart
    /\ LET s == StoreAfter(<<AdvWorld[1].block, World[4].block>>)
       IN /\ hash_block_map = [n \in Nodes |-> IF n = Me THEN s.blocks
                                                ELSE NewBlockchainBlocks]
          /\ endhash_clen_map = [n \in Nodes |-> IF n = Me THEN s.tips
                                                  ELSE NewBlockchainTips]
    /\ all_transactions = [n \in Nodes |-> IF n = Me THEN {PayTx} ELSE {}]
    /\ added_transactions = [n \in Nodes |-> {}]
    /\ balance = [n \in Nodes |-> <<>>]
    /\ stop_mine = [n \in Nodes |-> FALSE]
    /\ miner = [n \in Nodes |-> IdleMiner]
    /\ handler = [n \in Nodes |-> [k \in Handlers |-> IdleHandler]]
    /\ chan = [src \in Nodes |-> [dst \in Nodes |->
                 IF src = Honest /\ dst = Me
                 THEN <<AdvWorld[2].block, AdvWorld[3].block>> ELSE <<>>]]
    /\ hash_blkheader_map = NewHeaders
    /\ hash_transactions_map = <<>>
    /\ spv_call = NoCall
    /\ mode = INIT_MODE
    /\ excluded_transactions = {}
    /\ withheld_blocks = <<>>
    /\ pubchain_count = 0
    /\ addresses = <<>>
    /\ peers = [a \in 1..NumHosts |-> <<>>]
    /\ node = [a \in 1..NumHosts |-> [pc |-> "new", pubkey |-> a]]
    /\ inbox = [a \in 1..NumHosts |-> <<>>]
    /\ headers_sent = [n \in Nodes |-> <<>>]
    /\ lock = [l \in Locks |-> Unlocked]
    /\ thread = [t \in Threads |-> <<>>]
    /\ merkle_items = <<>>
    /\ merkle_call = NoCall

\* the oldest block message in flight from src to n reaches listener
\* thread k
RaceReceive(n, k, src) ==
    /\ chan[src][n] # <<>>
    /\ HandleBlockSet(n, k, Head(chan[src][n]))
    /\ chan' = [chan EXCEPT ![src][n] = Tail(@)]

RaceNext ==
    \/ MiningThread(Me)
    \/ \E k \in Handlers : ListenerThread(Me, k)
    \/ \E k \in Handlers : RaceReceive(Me, k, Honest)

SpecRace == RaceInit /\ [][RaceNext]_vars

(***************************************************************************)
(* SpecLocks: the threads of one Miner and its four RLocks.  Thread 0 runs *)
(* create_block again and again; every listener thread runs the handler of *)
(* one message.  A thread is the list of the acquire and release calls it  *)
(* has still to make; what the threads compute between them is left out.   *)
(***************************************************************************)
\* Miner._update
update_ops ==
    << <<"acquire", "blockchain_lock">>, <<"acquire", "added_tx_lock">>,
       <<"acquire", "balance_lock">>, <<"release", "blockchain_lock">>,
       <<"release", "added_tx_lock">>, <<"release", "balance_lock">> >>

\* _check_transactions_balance taking the lock of the chain
check_transactions_balance_ops_chain ==
    << <<"acquire", "blockchain_lock">>, <<"release", "blockchain_lock">> >>

\* Miner._check_transactions_balance
check_transactions_balance_ops ==
    << <<"acquire", "balance_lock">>, <<"release", "balance_lock">> >>

\* Miner.add_block: Blockchain.add under the lock of the chain, and _update
\* when it has not raised
add_block_ops(added) ==
    << <<"acquire", "blockchain_lock">>, <<"release", "blockchain_lock">> >>
        \o (IF added THEN update_ops ELSE <<>>)

\* Miner.create_block: every list of lock calls one call of it can make.
\* _gather_transactions calls _check_transactions_balance once for every
\* sample it draws, with _added_tx_lock and _all_tx_lock held; the call
\* ends after _update when that raises, after Block.new when that returns
\* None, and inside add_block when that raises.
create_block_ops ==
    LET RECURSIVE Samples_ops(_)
        Samples_ops(k) == IF k = 0 THEN <<>>
                          ELSE check_transactions_balance_ops \o Samples_ops(k - 1)
        gather(k) == << <<"acquire", "added_tx_lock">>, <<"acquire", "all_tx_lock">> >>
                        \o Samples_ops(k)
                        \o << <<"release", "added_tx_lock">>, <<"release", "all_tx_lock">> >>
        ends == {<<>>, add_block_ops(FALSE), add_block_ops(TRUE),
                 add_block_ops(TRUE)
                    \o << <<"acquire", "added_tx_lock">>, <<"release", "added_tx_lock">> >>}
    IN {update_ops} \cup {update_ops \o gather(k) \o end : k \in 0..MaxSamples, end \in ends}

\* _MinerListener.handle_client_data: the lock calls of the handler of a
\* "b", "t", "x" or "r" message: add_block, add_transaction, get_balance
\* (its _update may raise) and get_transaction_proof
handler_ops ==
    {add_block_ops(FALSE), add_block_ops(TRUE),
     << <<"acquire", "all_tx_lock">>, <<"release", "all_tx_lock">> >>,
     update_ops, update_ops \o check_transactions_balance_ops,
     << <<"acquire", "blockchain_lock">>, <<"release", "blockchain_lock">> >>}

\* thread t starts a call: main calls create_block, a listener thread is
\* started for a message
Call(t) ==
    /\ thread[t] = <<>>
    /\ \E ops \in (IF t = 0 THEN create_block_ops ELSE handler_ops) :
          thread' = [thread EXCEPT ![t] = ops]
    /\ UNCHANGED <<lock, headers_sent, dsVars, overlayVars, merkleVars, spvVars, sha, clock,
                   storeVars, minerVars, chan>>

\* RLock.acquire by thread t: it returns when no other thread owns the lock
Acquire(t) ==
    /\ thread[t] # <<>>
    /\ Head(thread[t])[1] = "acquire"
    /\ LET l == Head(thread[t])[2]
       IN /\ lock[l].owner \in {Unlocked.owner, t}
          /\ lock' = [lock EXCEPT ![l] = [owner |-> t, count |-> lock[l].count + 1]]
    /\ thread' = [thread EXCEPT ![t] = Tail(@)]
    /\ UNCHANGED <<headers_sent, dsVars, overlayVars, merkleVars, spvVars, sha, clock,
                   storeVars, minerVars, chan>>

\* RLock.release by the thread that owns the lock
Release(t) ==
    /\ thread[t] # <<>>
    /\ Head(thread[t])[1] = "release"
    /\ LET l == Head(thread[t])[2]
       IN /\ lock[l].owner = t
          /\ lock' = [lock EXCEPT ![l] = IF lock[l].count = 1 THEN Unlocked
                                         ELSE [owner |-> t, count |-> lock[l].count - 1]]
    /\ thread' = [thread EXCEPT ![t] = Tail(@)]
    /\ UNCHANGED <<headers_sent, dsVars, overlayVars, merkleVars, spvVars, sha, clock,
                   storeVars, minerVars, chan>>

LocksNext ==
    \/ \E t \in Threads : Call(t)
    \/ \E t \in Threads : Acquire(t)
    \/ \E t \in Threads : Release(t)

SpecLocks == Init /\ [][LocksNext]_vars

(***************************************************************************)
(* Properties of the chain store, checked under Spec.                      *)
(***************************************************************************)
Tips(n) == DictKeys(endhash_clen_map[n])

\* the number of prev_hash steps from the block with hash h to genesis
RECURSIVE StepsToGenesis(_, _)
StepsToGenesis(hbm, h) ==
    IF h = GenesisHash THEN 0
    ELSE 1 + StepsToGenesis(hbm, hbm[h].header.prev_hash)

\* the stored block with hash h has a stored child
HasChild(n, h) ==
    \E c \in DOMAIN hash_block_map[n] : hash_block_map[n][c].header.prev_hash = h

\* the sum of the header hashes on the path from genesis to the block h
RECURSIVE PathSum(_, _)
PathSum(hbm, h) ==
    IF h = GenesisHash THEN GenesisHash
    ELSE h + PathSum(hbm, hbm[h].header.prev_hash)

\* C1: for every tip t of every store, the stored length of t is the number
\* of prev_hash steps from t back to genesis.
C1_TipAccuracy ==
    \A n \in Stores : \A t \in Tips(n) :
        DictGet(endhash_clen_map[n], t) = StepsToGenesis(hash_block_map[n], t)

\* a store where a block was added again after its child (it is a tip that
\* has a child), beside a tip of length two or more and a fork from inside
C1_Witness ==
    \E n \in Stores :
        /\ \E t \in Tips(n) : HasChild(n, t)
        /\ \E t \in Tips(n) : DictGet(endhash_clen_map[n], t) >= 2
        /\ \E h \in DOMAIN hash_block_map[n] :
              /\ h # GenesisHash
              /\ Cardinality({c \in DOMAIN hash_block_map[n] :
                                hash_block_map[n][c].header.prev_hash = h}) >= 2

\* C2: every key of tips is a block without a child in blocks.
C2_TipsAreLeaves == \A n \in Stores : \A t \in Tips(n) : ~HasChild(n, t)

\* C3: add of a block whose header hash is already a key of blocks leaves
\* blocks and tips as they were.
C3_AddIdempotent ==
    [][\A n \in Stores, i \in DOMAIN World :
          (/\ Add(n, World[i].block)
           /\ hash1_dic(World[i].block.header) \in DOMAIN hash_block_map[n])
          => /\ hash_block_map'[n] = hash_block_map[n]
             /\ DictMap(endhash_clen_map'[n]) = DictMap(endhash_clen_map[n])]_vars

\* the balance of key k on the fork that ends at the block with hash h
BalanceOnFork(hbm, h, k) ==
    LET bal == fork_balance(hbm, hbm[h])
    IN IF k \in DOMAIN bal THEN bal[k] ELSE 0

\* the block spends, in a transaction after the coinbase, more than the
\* sender owns on the fork that ends at the block's parent
Overspends(hbm, block) ==
    \E i \in 2..Len(block.transactions) :
        block.transactions[i].amount >
            BalanceOnFork(hbm, block.header.prev_hash, block.transactions[i].sender)

\* C5: a block with a transaction whose sender owns less than the amount on
\* the fork ending at the block's parent is never inserted into blocks.
C5_OverspendRejected ==
    \A n \in Stores : \A h \in DOMAIN hash_block_map[n] \ {GenesisHash} :
        ~Overspends(hash_block_map[n], hash_block_map[n][h])

\* C6: resolve returns a tip of the greatest length and, among the tips of
\* that length, one of the greatest sum of header hashes from genesis; the
\* only tip when there is one.
C6_ResolveBest ==
    \A n \in Stores :
        LET hbm == hash_block_map[n]
            ecm == endhash_clen_map[n]
            r == hash1_dic(resolve(hbm, ecm).header)
        IN /\ r \in Tips(n)
           /\ \A t \in Tips(n) : DictGet(ecm, t) <= DictGet(ecm, r)
           /\ \A t \in Tips(n) :
                 DictGet(ecm, t) = DictGet(ecm, r) => PathSum(hbm, t) <= PathSum(hbm, r)
           /\ Cardinality(Tips(n)) = 1 => Tips(n) = {r}

\* two tips of the greatest length with different sums, the one inserted
\* first the smaller: resolve has to pass over it
C6_Witness ==
    \E n \in Stores :
        LET hbm == hash_block_map[n]
            ecm == endhash_clen_map[n]
            r == hash1_dic(resolve(hbm, ecm).header)
        IN \E i, j \in DOMAIN ecm :
              /\ i < j
              /\ ecm[i][2] = ecm[j][2]
              /\ ecm[j][1] = r
              /\ ecm[j][2] >= 2
              /\ PathSum(hbm, ecm[i][1]) < PathSum(hbm, r)
              /\ \A k \in DOMAIN ecm : ecm[k][2] <= ecm[j][2]

\* C7: two stores with the same blocks and the same tips map resolve to the
\* same block, in whatever order the blocks were added.
C7_ResolveDeterministic ==
    \A n, m \in Stores :
        (/\ hash_block_map[n] = hash_block_map[m]
         /\ DictMap(endhash_clen_map[n]) = DictMap(endhash_clen_map[m]))
        => resolve(hash_block_map[n], endhash_clen_map[n])
             = resolve(hash_block_map[m], endhash_clen_map[m])

RaceAdd(n, c) ==
    LET hbm == hash_block_map[n]
        w == c.header.prev_hash
    IN /\ hash1_dic(c.header) \notin DOMAIN hbm
       /\ hash1_dic(c.header) \in DOMAIN hash_block_map'[n]
       /\ w \in DOMAIN hbm \ {GenesisHash}
       /\ hash1_dic(resolve(hbm, endhash_clen_map[n]).header) = w
       /\ BlockchainVerify(hbm, c) = "ok"
       /\ Add(n, c)

\* the blocks of store n without a child that extend the parent of the
\* parent of c, the parent of c apart: the losers of the race
Losers(n, c) ==
    LET hbm == hash_block_map[n]
        w == c.header.prev_hash
    IN {l \in DOMAIN hbm \ {w, GenesisHash} :
           /\ hbm[l].header.prev_hash = hbm[w].header.prev_hash
           /\ ~HasChild(n, l)}

\* C12 as stated: after two blocks extend one parent and a further block is
\* added on the winner, the loser is in blocks and is not a key of tips.
C12_LoserLeavesTips ==
    [][\A n \in Stores, i \in DOMAIN World :
          RaceAdd(n, World[i].block)
          => \A l \in Losers(n, World[i].block) :
                /\ l \in DOMAIN hash_block_map'[n]
                /\ l \notin DictKeys(endhash_clen_map'[n])]_vars

\* C12 amended: after two blocks extend one parent and a further block is
\* added on the winner, the loser is in blocks and is still a key of tips,
\* with its length, and resolve returns the block that was added.
C12_LoserStaysTip ==
    [][\A n \in Stores, i \in DOMAIN World :
          RaceAdd(n, World[i].block)
          => \A l \in Losers(n, World[i].block) :
                /\ l \in DOMAIN hash_block_map'[n]
                /\ hash_block_map'[n][l] = hash_block_map[n][l]
                /\ l \in DictKeys(endhash_clen_map'[n])
                /\ DictGet(endhash_clen_map'[n], l) = DictGet(endhash_clen_map[n], l)
                /\ resolve(hash_block_map'[n], endhash_clen_map'[n]) = World[i].block]_vars

\* a store after such a step: siblings a and l, c on a, l without a child,
\* c returned by resolve
C12_Witness ==
    \E n \in Stores :
        LET hbm == hash_block_map[n] IN
        \E a, l, c \in DOMAIN hbm \ {GenesisHash} :
            /\ a # l
            /\ hbm[a].header.prev_hash = hbm[l].header.prev_hash
            /\ hbm[c].header.prev_hash = a
            /\ ~HasChild(n, l)
            /\ resolve(hbm, endhash_clen_map[n]) = hbm[c]
            /\ l \in Tips(n)

\* this step changes the blocks or the tips of store n
StoreChanges(n) ==
    \/ hash_block_map'[n] # hash_block_map[n]
    \/ endhash_clen_map'[n] # endhash_clen_map[n]

\* the transactions of the blocks of fork, a sequence of blocks, are in one
\* block each
OncePerFork(fork) ==
    /\ \A i, j \in DOMAIN fork :
          i # j => SeqToSet(fork[i].transactions) \cap SeqToSet(fork[j].transactions) = {}
    /\ \A i \in DOMAIN fork :
          Cardinality(SeqToSet(fork[i].transactions)) = Len(fork[i].transactions)

\* block holds a transaction of the fork that ends at its parent, stored in n
Replays(n, block) ==
    /\ block.header.prev_hash \in DOMAIN hash_block_map[n]
    /\ SeqToSet(block.transactions)
         \cap SeqToSet(get_transactions_by_fork(
                  hash_block_map[n], hash_block_map[n][block.header.prev_hash])) # {}

\* C13: on the fork of every tip every transaction is in exactly one block,
\* and add of a block that holds a transaction of the fork ending at its
\* parent leaves the store as it was: no step that changes a store is such
\* an add.
C13_NoReplayOnFork ==
    /\ [](\A n \in Stores : \A t \in Tips(n) :
            OncePerFork(get_blocks_by_fork(hash_block_map[n], hash_block_map[n][t])))
    /\ [][\A n \in Stores :
            StoreChanges(n)
            => \A i \in DOMAIN World :
                  ~(Replays(n, World[i].block) /\ Add(n, World[i].block))]_vars

\* a store with a fork of two blocks or more that holds a transaction other
\* than a coinbase, which a block of World with a stored parent holds again
C13_Witness ==
    \E n \in Stores : \E i \in DOMAIN World :
        /\ Replays(n, World[i].block)
        /\ hash1_dic(World[i].block.header) \notin DOMAIN hash_block_map[n]
        /\ BlockValidate(World[i].block) = "ok"
        /\ BlockVerify(World[i].block) = "ok"
        /\ check_timestamp(hash_block_map[n], World[i].block)

\* C14: genesis is stored, the parent of every other stored block is stored,
\* and add of a block whose parent is not stored leaves the store as it was:
\* no step that changes a store is such an add.
C14_ChainIntegrity ==
    /\ [](\A n \in Stores :
            /\ GenesisHash \in DOMAIN hash_block_map[n]
            /\ hash_block_map[n][GenesisHash] = Genesis
            /\ \A h \in DOMAIN hash_block_map[n] \ {GenesisHash} :
                  hash_block_map[n][h].header.prev_hash \in DOMAIN hash_block_map[n])
    /\ [][\A n \in Stores :
            StoreChanges(n)
            => \A i \in DOMAIN World :
                  ~(/\ World[i].block.header.prev_hash \notin DOMAIN hash_block_map[n]
                    /\ Add(n, World[i].block))]_vars

\* a store with a chain of two blocks, handed a block of World that passes
\* Block.verify and whose parent it does not hold
C14_Witness ==
    \E n \in Stores :
        /\ \E t \in Tips(n) : DictGet(endhash_clen_map[n], t) >= 2
        /\ \E i \in DOMAIN World :
              /\ World[i].block.header.prev_hash \notin DOMAIN hash_block_map[n]
              /\ BlockVerify(World[i].block) = "ok"

(***************************************************************************)
(* Properties of the miner and of the network                              *)
(***************************************************************************)
\* C4: in every state of a miner, after any sequence of blocks it mined and
\* foreign blocks its store accepted, get_balance_by_fork of the block
\* resolve returns does not raise and holds no negative balance.
C4_BestForkSolvent ==
    LET upd == update_balance(hash_block_map[Me], endhash_clen_map[Me])
    IN /\ ~upd.raise
       /\ \A k \in DOMAIN upd.balance : upd.balance[k] >= 0

\* every block message sent has been delivered and every mined block has
\* been added and broadcast: no step but the mining of another block is left
Quiescent ==
    /\ \A n, m \in Nodes : chan[n][m] = <<>>
    /\ \A n \in Nodes : miner[n].pc # "add"

\* C8: when the miners have stopped mining and every block message has been
\* delivered to every miner, in whatever order, resolve returns the same
\* block on every miner.
C8_Converges ==
    Quiescent =>
        \A n, m \in Nodes :
            resolve(hash_block_map[n], endhash_clen_map[n])
                = resolve(hash_block_map[m], endhash_clen_map[m])

\* C9: a mining attempt in whose loop the Event is set, by a block message
\* received after the loop last tested it, returns no block.
C9_ReceivedCancels ==
    [][(miner[Me].pc = "hash" /\ stop_mine[Me]) => miner'[Me].pc # "add"]_vars

\* C10: the Event set by the handler of a block message is cleared later,
\* whether the block was added or rejected.
C10_EventuallyClear == stop_mine[Me] ~> ~stop_mine[Me]

(***************************************************************************)
(* Properties of the SPV client, checked under SpecSpv and SpecQuorum.     *)
(***************************************************************************)
\* this step ends a call of verify_transaction_proof or request_balance
CallEnds(op) == spv_call' # spv_call /\ spv_call'.op = op

\* a block on the fork of the block resolve returns, in the store of n,
\* holds a transaction of hash tx_hash
OnBestFork(n, tx_hash) ==
    \E h \in ForkHashes(hash_block_map[n],
                        resolve(hash_block_map[n], endhash_clen_map[n])) :
        \E i \in DOMAIN hash_block_map[n][h].transactions :
            hash1(hash_block_map[n][h].transactions[i]) = tx_hash

\* the replies of a call that are not the stub, as a set, and how many
RealReplies(call) == {call.replies[i] : i \in {j \in DOMAIN call.replies : ~IsStub(call.replies[j])}}
RealCount(call, rep) == Cardinality({i \in DOMAIN call.replies : call.replies[i] = rep})
RealTotal(call) == Cardinality({i \in DOMAIN call.replies : ~IsStub(call.replies[i])})

\* C15: when the client has created T with create_transaction, the miner
\* has a block with T on its best fork, the client holds the headers of
\* that block and of the miner's tip, and the reply chosen is the answer
\* of the miner, verify_transaction_proof(hash1(T)) returns true.
C15_SpvScenario ==
    [][(/\ CallEnds("verify")
        /\ spv_call'.tx_hash = hash1(SpvTx)
        /\ SpvTx \in all_transactions[SpvMiner]
        /\ OnBestFork(SpvMiner, hash1(SpvTx))
        /\ spv_call'.valid_reply =
              handle_transaction_proof(hash_block_map[SpvMiner],
                                       endhash_clen_map[SpvMiner], hash1(SpvTx))
        /\ spv_call'.valid_reply[2] \in DOMAIN hash_blkheader_map
        /\ spv_call'.valid_reply[4] \in DOMAIN hash_blkheader_map)
       => spv_call'.result = "True"]_vars

C17_ModalReply ==
    (spv_call.op \in {"verify", "balance"} /\ RealTotal(spv_call) > 0)
    => /\ ~IsStub(spv_call.valid_reply)
       /\ spv_call.valid_reply \in RealReplies(spv_call)
       /\ \A rep \in RealReplies(spv_call) :
             /\ RealCount(spv_call, rep) <= RealCount(spv_call, spv_call.valid_reply)
             /\ 2 * RealCount(spv_call, rep) > RealTotal(spv_call)
                => spv_call.valid_reply = rep

\* a call with a stub among the replies where the reply of the majority is
\* not the first reply of a miner
C17_Witness ==
    /\ spv_call.op = "verify"
    /\ \E i \in DOMAIN spv_call.replies : IsStub(spv_call.replies[i])
    /\ 2 * RealCount(spv_call, spv_call.valid_reply) > RealTotal(spv_call)
    /\ \E i \in DOMAIN spv_call.replies :
          /\ ~IsStub(spv_call.replies[i])
          /\ spv_call.replies[i] # spv_call.valid_reply
          /\ \A j \in 1..(i - 1) : IsStub(spv_call.replies[j])

\* C18: when every reply is the stub, verify_transaction_proof and
\* request_balance raise.
C18_NoQuorumRaises ==
    (spv_call.op \in {"verify", "balance"} /\ RealTotal(spv_call) = 0)
    => spv_call.result = "No miner replies for request."

\* a call of request_balance that got two stubs or more, in two spellings
C18_Witness ==
    /\ spv_call.op = "balance"
    /\ Len(spv_call.replies) >= 2
    /\ RealTotal(spv_call) = 0
    /\ \E i, j \in DOMAIN spv_call.replies : spv_call.replies[i] # spv_call.replies[j]
    /\ spv_call.result = "No miner replies for request."

\* header may not be stored by add_block_header
BadHeader(header) ==
    \/ hash1_dic(header) >= TARGET
    \/ header.prev_hash \notin DOMAIN hash_blkheader_map

\* C19: every stored header but genesis is stored under its hash, which is
\* below TARGET, and its prev_hash is a key of the header map;
\* add_block_header of any other header leaves the map as it was.
C19_HeaderChain ==
    /\ [](\A h \in DOMAIN hash_blkheader_map \ {GenesisHash} :
            /\ hash1_dic(hash_blkheader_map[h]) = h
            /\ h < TARGET
            /\ hash_blkheader_map[h].prev_hash \in DOMAIN hash_blkheader_map)
    /\ [][\A i \in DOMAIN SpvWorld :
            (/\ BadHeader(SpvWorld[i].block.header)
             /\ SpvAddBlockHeader(SpvWorld[i].block.header))
            => /\ hash_blkheader_map' = hash_blkheader_map
               /\ spv_call'.result # "ok"]_vars

\* a client with two headers on genesis whose add_block_header has just
\* refused a header
C19_Witness ==
    /\ Cardinality(DOMAIN hash_blkheader_map) >= 3
    /\ spv_call.op = "h"
    /\ spv_call.result = "Invalid block header hash."

\* the answer of the miner among the replies of a call
MinerReply(call) == call.replies[Len(call.replies)]

RECURSIVE Ledgers(_, _, _)
Ledgers(bal, blocks, i) ==
    IF blocks = <<>> THEN {}
    ELSE IF i > Len(blocks[1].transactions) THEN Ledgers(bal, Tail(blocks), 1)
    ELSE LET next == ApplyTx(bal, blocks[1].transactions[i], i)
         IN {next} \cup Ledgers(next, blocks, i + 1)

Reverse(seq) == [i \in DOMAIN seq |-> seq[Len(seq) + 1 - i]]

\* some account is negative after some transaction of the fork of last_block
DipsBelowZero(hbm, last_block) ==
    \E bal \in Ledgers(<<>>, Reverse(get_blocks_by_fork(hbm, last_block)), 1) :
        \E k \in DOMAIN bal : bal[k] < 0

\* C29: get_balance_by_fork raises whenever, with the transactions of the
\* fork applied from genesis to the tip and in the order of each block, some
\* balance is negative after some transaction, also when no balance is
\* negative at the end.
C29_RaisesOnDip ==
    [][(/\ CreateBlockUpdate(Me)
        /\ DipsBelowZero(hash_block_map[Me],
               resolve(hash_block_map[Me], endhash_clen_map[Me])))
       => miner'[Me].pc = "crashed"]_vars

\* the transactions of list, applied in order to the account map bal, leave
\* neither their sender nor their receiver negative, and every sender has an
\* account when its transaction is applied
RECURSIVE StaysSolvent(_, _)
StaysSolvent(bal, list) ==
    IF list = <<>> THEN TRUE
    ELSE LET tx == Head(list)
             old == [k \in {tx.sender, tx.receiver} |->
                        IF k \in DOMAIN bal THEN bal[k] ELSE 0]
             new == [k \in {tx.sender, tx.receiver} |->
                        old[k] - (IF k = tx.sender THEN tx.amount ELSE 0)
                               + (IF k = tx.receiver THEN tx.amount ELSE 0)]
         IN /\ new[tx.sender] >= 0
            /\ new[tx.receiver] >= 0
            /\ StaysSolvent([k \in DOMAIN bal \cup DOMAIN new |->
                                IF k \in DOMAIN new THEN new[k] ELSE bal[k]],
                            Tail(list))

\* the transactions of the blocks of the store of n
StoredTx(n) ==
    UNION {SeqToSet(hash_block_map[n][h].transactions) : h \in DOMAIN hash_block_map[n]}

\* C30: _gather_transactions returns; the list starts with a new coinbase
\* that pays REWARD to the miner; the rest are pairwise distinct pending
\* transactions that, applied in order to the balance of the miner, leave no
\* sender or receiver negative; with nothing pending the list is the
\* coinbase alone.
C30_GatherValid ==
    /\ [](miner[Me].pc = "gather"
          => gather_transactions(all_transactions[Me] \ added_transactions[Me],
                                 balance[Me], Me, clock) # {})
    /\ [][CreateBlockGather(Me)
          => LET list == miner'[Me].gathered_tx
                 pool == all_transactions[Me] \ added_transactions[Me]
                 rest == Tail(list)
             IN /\ Len(list) >= 1
                /\ list[1].sender = Me /\ list[1].receiver = Me
                /\ list[1].amount = REWARD
                /\ TransactionVerify(list[1])
                /\ list[1] \notin StoredTx(Me) \cup all_transactions[Me]
                /\ \A i \in DOMAIN rest : rest[i] \in pool
                /\ \A i, j \in DOMAIN rest : i # j => rest[i] # rest[j]
                /\ StaysSolvent(balance[Me], rest)
                /\ pool = {} => list = <<list[1]>>]_vars

\* the miner has gathered two pending transactions, the second payable only
\* after the first, from a pool whose third it had to leave out
C30_Witness ==
    /\ miner[Me].pc = "poll"
    /\ Len(miner[Me].gathered_tx) = 3
    /\ miner[Me].gathered_tx[3].sender = miner[Me].gathered_tx[2].receiver
    /\ Cardinality(all_transactions[Me] \ added_transactions[Me]) = 3

(***************************************************************************)
(* Properties of the double-spend miner, checked under SpecDs.             *)
(***************************************************************************)
\* the blocks of list that Me has mined: their coinbase pays Me
MinedByMe(list) == {i \in DOMAIN list : list[i].transactions[1].receiver = Me}

\* the blocks of others that the store of Me holds on top of block fork
PublicSince(fork) ==
    LET hbm == hash_block_map[Me]
    IN {h \in DOMAIN hbm :
          /\ hbm[h] # Genesis
          /\ hbm[h] # fork
          /\ hbm[h].transactions[1].receiver # Me
          /\ hash1_dic(fork.header) \in ForkHashes(hbm, hbm[h])}

\* C21: when the double-spend miner publishes its withheld blocks, it has
\* mined more blocks on top of the fork point than honest miners have
\* published on top of it.
C21_PublishOnlyAhead ==
    [][(mode = FIRE_MODE /\ mode' = INIT_MODE /\ DsPublish(Me))
       => Cardinality(MinedByMe(Append(withheld_blocks, MinedBlock(Me))))
             > Cardinality(PublicSince(Append(withheld_blocks, MinedBlock(Me))[1]))]_vars

C23_VendorPaymentNeverMined ==
    /\ \A h \in DOMAIN hash_block_map[Me] :
          (/\ hash_block_map[Me][h] # Genesis
           /\ hash_block_map[Me][h].transactions[1].receiver = Me)
          => \A i \in DOMAIN hash_block_map[Me][h].transactions :
                ~(/\ hash_block_map[Me][h].transactions[i].sender = SpvKey
                  /\ hash_block_map[Me][h].transactions[i].receiver = Vendor)
    /\ \A tx \in (all_transactions[Me] \ added_transactions[Me]) \ excluded_transactions :
          ~(tx.sender = SpvKey /\ tx.receiver = Vendor)
    /\ \A i \in DOMAIN miner[Me].gathered_tx :
          ~(/\ miner[Me].gathered_tx[i].sender = SpvKey
            /\ miner[Me].gathered_tx[i].receiver = Vendor)

\* the miner has been sent the payment of the client to the vendor and has
\* then mined a block with another transaction of the client
C23_Witness ==
    /\ AdvTx.buy \in excluded_transactions
    /\ \E h \in DOMAIN hash_block_map[Me] :
          /\ hash_block_map[Me][h] # Genesis
          /\ hash_block_map[Me][h].transactions[1].receiver = Me
          /\ \E i \in DOMAIN hash_block_map[Me][h].transactions :
                hash_block_map[Me][h].transactions[i] = AdvTx.refund

(***************************************************************************)
(* Properties of the selfish miner, checked under SpecSelfish.             *)
(***************************************************************************)
\* C24: on a foreign block, with q blocks withheld, the selfish miner
\* broadcasts the first 2 withheld blocks if q >= 3 and all q otherwise, in
\* the order they were mined, and then processes the foreign block.
C24_ReleaseRule ==
    [][(chan[Honest][Me] # <<>> /\ chan'[Honest][Me] = Tail(chan[Honest][Me]))
       => LET q == Len(withheld_blocks)
              k == IF q >= 3 THEN 2 ELSE q
              block == Head(chan[Honest][Me])
          IN /\ \A p \in Peers(Me) :
                   chan'[Me][p] = chan[Me][p] \o SubSeq(withheld_blocks, 1, k)
             /\ withheld_blocks' = SubSeq(withheld_blocks, k + 1, q)
             /\ BlockchainVerify(hash_block_map[Me], block) = "ok"
                   => hash1_dic(block.header) \in DOMAIN hash_block_map'[Me]]_vars

\* C25: a block the selfish miner mines is added to its store and to the
\* end of withheld_blocks and is not broadcast then; a block is broadcast
\* at most once, and only from withheld_blocks when a foreign block is
\* received.
C25_WithheldThenOnce ==
    /\ [][(miner[Me].pc = "add" /\ SelfishPublish(Me))
          => /\ hash1_dic(MinedBlock(Me).header) \in DOMAIN hash_block_map'[Me]
             /\ withheld_blocks' = Append(withheld_blocks, MinedBlock(Me))
             /\ chan' = chan]_vars
    /\ [](\A p \in Peers(Me) : \A i, j \in DOMAIN chan[Me][p] :
             i # j => chan[Me][p][i] # chan[Me][p][j])
    /\ [][\A p \in Peers(Me) :
             chan'[Me][p] # chan[Me][p]
             => /\ chan[Honest][Me] # <<>>
                /\ chan'[Honest][Me] = Tail(chan[Honest][Me])
                /\ \E k \in 1..Len(withheld_blocks) :
                      /\ chan'[Me][p] = chan[Me][p] \o SubSeq(withheld_blocks, 1, k)
                      /\ withheld_blocks' = SubSeq(withheld_blocks, k + 1,
                                                   Len(withheld_blocks))]_vars

\* the miner has broadcast a block it mined and withholds a later one
C25_Witness ==
    /\ withheld_blocks # <<>>
    /\ \E i \in DOMAIN chan[Me][Honest] :
          /\ chan[Me][Honest][i].transactions[1].receiver = Me
          /\ hash1_dic(chan[Me][Honest][i].header) \in DOMAIN hash_block_map[Me]
          /\ withheld_blocks[1].header.timestamp > chan[Me][Honest][i].header.timestamp

(***************************************************************************)
(* Properties of the overlay, checked under SpecOverlay.                   *)
(***************************************************************************)
\* C26: once every node has completed startup and every "n" message of
\* the server has been delivered, the peers of each node include every
\* other registered node, whatever the order of the startups.  No process
\* has been started again.
C26_FullyConnected ==
    (\A a \in DOMAIN node :
        /\ node[a].pc = "done"
        /\ node[a].pubkey = a
        /\ inbox[a] = <<>>)
    => \A a \in DOMAIN node : \A i \in DOMAIN addresses :
          addresses[i].address # a
          => \E j \in DOMAIN peers[a] : peers[a][j] = addresses[i]

\* C27: the list of the server never holds two descriptors with the same
\* address.
C27_OneEntryPerAddress ==
    \A i, j \in DOMAIN addresses :
       i # j => addresses[i].address # addresses[j].address

(***************************************************************************)
(* Properties of the Merkle tree, checked under SpecMerkle.                *)
(***************************************************************************)
\* C28: for every list of one to MaxLeaves distinct transactions and every
\* transaction j of it, verify_proof(j, get_proof(j), get_root()) on the
\* tree made of the list is true.
C28_RoundTrip ==
    (/\ merkle_call.op = "round_trip"
     /\ \A i, j \in DOMAIN merkle_items : i # j => merkle_items[i] # merkle_items[j])
    => merkle_call.result = "True"

(***************************************************************************)
(* Properties of create_block, the locks and the listener threads.         *)
(***************************************************************************)
\* C31: in create_block of an honest miner the block is mined on the tip
\* that the _update at the start of the call returned; the "b" message is
\* broadcast when the block is in the miner's own store and no "h" message
\* of it has been sent; the "h" message is broadcast when the "b" message has
\* been sent to every peer; an attempt that is cancelled changes neither
\* the store nor the messages sent.
C31_CreateBlockOrder ==
    [][LET m == miner[Me]
           hbm == hash_block_map[Me]
       IN /\ (m.pc = "idle" /\ miner'[Me].pc = "gather") =>
                 miner'[Me].last_blk = resolve(hbm, endhash_clen_map[Me])
          /\ (m.pc = "gather" /\ miner'[Me].pc = "poll") =>
                 /\ miner'[Me].last_blk = m.last_blk
                 /\ miner'[Me].header.prev_hash = hash1_dic(m.last_blk.header)
          /\ (m.pc \in {"poll", "hash", "add", "update", "broadcast"}
                /\ miner'[Me].pc \notin {"idle", "crashed"}) =>
                 /\ miner'[Me].header = m.header
                 /\ miner'[Me].gathered_tx = m.gathered_tx
          /\ chan' # chan =>
                 /\ m.pc = "broadcast"
                 /\ hash1_dic(m.header) \in DOMAIN hbm
                 /\ hbm[hash1_dic(m.header)] = MinedBlock(Me)
                 /\ m.header \notin SeqToSet(headers_sent[Me])
                 /\ \A p \in Peers(Me) : chan'[Me][p] = Append(chan[Me][p], MinedBlock(Me))
          /\ headers_sent' # headers_sent =>
                 /\ headers_sent'[Me] = Append(headers_sent[Me], m.header)
                 /\ hash1_dic(m.header) \in DOMAIN hbm
                 /\ \A p \in Peers(Me) : MinedBlock(Me) \in SeqToSet(chan[Me][p])
          /\ (m.pc = "poll" /\ miner'[Me].pc = "idle") =>
                 UNCHANGED <<storeVars, chan, headers_sent>>]_vars

\* a create_block has run to its end: its block is stored and both messages
\* are sent
C31_Witness ==
    /\ headers_sent[Me] # <<>>
    /\ \E h \in DOMAIN hash_block_map[Me] :
          /\ hash_block_map[Me][h].header = headers_sent[Me][1]
          /\ \A p \in Peers(Me) : hash_block_map[Me][h] \in SeqToSet(chan[Me][p])

\* thread t is in acquire() of a lock that another thread owns
Blocked(t) ==
    /\ thread[t] # <<>>
    /\ Head(thread[t])[1] = "acquire"
    /\ lock[Head(thread[t])[2]].owner \notin {Unlocked.owner, t}

\* C32: deadlock freedom of the four locks: with the mining thread in
\* create_block and the listener threads in add_block, add_transaction,
\* get_balance and get_transaction_proof, no set of threads is such that
\* every thread of it waits for a lock that a thread of it owns.
C32_NoLockCycle ==
    \A S \in SUBSET Threads :
        S # {} => \E t \in S : ~(Blocked(t) /\ lock[Head(thread[t])[2]].owner \in S)

\* the mining thread owns _added_tx_lock and _all_tx_lock and waits for
\* _balance_lock, which a listener thread owns
C32_Witness ==
    /\ lock["added_tx_lock"].owner = 0
    /\ lock["all_tx_lock"].owner = 0
    /\ Blocked(0)
    /\ lock["balance_lock"].owner \in Handlers

\* C33: _all_tx_lock is the innermost lock: no thread comes to own
\* _blockchain_lock, _added_tx_lock or _balance_lock while it owns
\* _all_tx_lock.
C33_AllTxInnermost ==
    [][\A t \in Threads, l \in Locks \ {"all_tx_lock"} :
          (lock'[l].owner = t /\ lock[l].owner # t) => lock["all_tx_lock"].owner # t]_vars

\* C36: with several listener threads handling foreign blocks, stop_mine
\* is set in every state in which a thread has received a block and its
\* add_block has not returned yet.
C36_FlagWhileIntegrating ==
    (\E k \in Handlers : handler[Me][k].pc \in {"add", "update"}) => stop_mine[Me]

\* C37: a block the miner has mined in create_block is accepted by the
\* chain store of the miner: Blockchain.verify passes it, and no
\* transaction of it is on the fork that ends at the block it is mined on.
C37_MinedAccepted ==
    miner[Me].pc = "add" =>
        /\ SeqToSet(miner[Me].gathered_tx)
              \cap SeqToSet(get_transactions_by_fork(hash_block_map[Me],
                                                     miner[Me].last_blk)) = {}
        /\ BlockchainVerify(hash_block_map[Me], MinedBlock(Me)) = "ok"

\* C34: every block the double-spend miner receives from the honest miner
\* while it is in FORK_MODE or in FIRE_MODE raises pubchain_count by
\* exactly one.
C34_CountsEveryBlock ==
    [][(/\ mode \in {FORK_MODE, FIRE_MODE}
        /\ chan[Honest][Me] # <<>>
        /\ chan'[Honest][Me] = Tail(chan[Honest][Me]))
       => pubchain_count' = pubchain_count + 1]_vars

C38_WithheldNonEmpty ==
    mode # INIT_MODE => withheld_blocks # <<>>

\* C39: for every list of one to MaxLeaves transactions, repeated ones
\* included, the making of the MerkleTree of the list ends and get_root
\* returns a root.
C39_BuildGivesRoot ==
    merkle_call.op = "build" => merkle_call.result = "root"

\* the sum of the balances of an account map
RECURSIVE SumBalance(_)
SumBalance(bal) ==
    IF DOMAIN bal = {} THEN 0
    ELSE LET k == CHOOSE j \in DOMAIN bal : TRUE
         IN bal[k] + SumBalance([j \in DOMAIN bal \ {k} |-> bal[j]])

\* C40: for every block in the store of the miner, the balances of the
\* accounts that get_balance_by_fork builds for the fork that ends at it add
\* up to REWARD times the number of blocks of the fork, genesis not
\* counted; so do the balances that _update has stored.
C40_SupplyConserved ==
    LET hbm == hash_block_map[Me]
    IN /\ \A h \in DOMAIN hbm :
             SumBalance(get_balance_by_fork(hbm, hbm[h]).balance)
                = REWARD * Len(get_blocks_by_fork(hbm, hbm[h]))
       /\ miner[Me].pc = "gather" =>
             SumBalance(balance[Me])
                = REWARD * Len(get_blocks_by_fork(hbm, resolve(hbm, endhash_clen_map[Me])))

\* _update has stored the balances of a fork of two blocks with a payment:
\* the payer and the payee hold 200 together
C40_Witness ==
    /\ miner[Me].pc = "gather"
    /\ resolve(hash_block_map[Me], endhash_clen_map[Me]) = LedgerWorld[4].block
    /\ SumBalance(balance[Me]) = 2 * REWARD
    /\ PayTx.receiver \in DOMAIN balance[Me]
    /\ balance[Me][PayTx.receiver] = PayTx.amount
====
